---- MODULE Spec2Model ----
(***************************************************************************)
(* Datalix: the undo history (core/history_tracker.py) and the pipeline    *)
(* execution engine (operations/workflow_pipeline.py) with the operation   *)
(* library it dispatches to.                                               *)
(*                                                                         *)
(* A Python value (a cell of a DataFrame, a column label, a parameter) is  *)
(* a record [k, n, t]: k is the kind, n the integer payload, t the text    *)
(* payload as a sequence of one-character strings.  A float that the model *)
(* cannot compute (log1p, sqrt, an anomaly score) is a symbolic term: n is *)
(* the integer it was computed from and t the chain of functions applied.  *)
(***************************************************************************)
EXTENDS Integers, Sequences, FiniteSets, TLC

VARIABLES
    \* ---- HistoryTracker and the session that uses it ----
    history,            \* HistoryTracker.history: list of entries
    data,               \* st.session_state.data: the live dataset (or None)
    returned,           \* what the last HistoryTracker call returned
    raised,             \* TRUE iff the last HistoryTracker call raised
    call,               \* the last handler that ran
    pending,            \* ghost: every recorded, not yet undone snapshot value
    undone,             \* ghost: an undo ran since construction or the last clear
    before,             \* ghost: the live dataset before the last handler ran
    \* ---- Pipeline ----
    steps,              \* Pipeline.steps
    execution_history,  \* Pipeline.execution_history
    pc,                 \* position inside Pipeline.execute
    df,                 \* the argument of the running execute call
    result_df,          \* local result_df of execute
    execution_log,      \* local execution_log of execute
    errors,             \* local errors of execute
    idx,                \* number of steps the for loop has visited
    prev_df,            \* ghost: result_df before the step visited last
    outcome,            \* ghost: how the step visited last ended
    result,             \* the (dataset, report) pair execute returned
    \* ---- a Pipeline object and its serialization ----
    pipeline,           \* the Pipeline object: all its fields
    clock,              \* datetime.now()
    uuid,               \* number of uuid4 values drawn so far
    loaded,             \* Pipeline.from_dict(pipeline.to_dict()), or None
    pipeline_was,       \* ghost: the Pipeline object before the last call
    op,                 \* ghost: the last call
    reports,            \* ghost: every report execute returned, in run order
    \* ---- WorkflowManager ----
    pipelines,          \* WorkflowManager.pipelines: pipeline_id -> Pipeline object
    heap,               \* the list objects that parameter values refer to
    pipelines_was,      \* ghost: pipelines before the last call
    heap_was,           \* ghost: heap before the last call
    touched,            \* ghost: pipeline_id the last call acted on (0: none)
    mop,                \* ghost: the last call
    \* ---- BatchProcessor ----
    files,              \* the files argument of the running process_files call
    template,           \* its template argument (None: no template)
    results,            \* local results of process_files
    batch_results,      \* BatchProcessor.batch_results
    fidx,               \* number of files the for loop has visited
    bpc,                \* position inside process_files / apply_template
    file_result,        \* local result of the file being processed
    cleaned_df,         \* local cleaned_df of apply_template
    operations_log,     \* local operations_log of apply_template
    tidx,               \* number of template steps the for loop has visited
    step_before,        \* ghost: cleaned_df before the step visited last
    step_failed,        \* ghost: the step visited last raised
    \* ---- the operation library called directly ----
    frames,             \* the DataFrame objects: address -> value
    arg,                \* address of the caller's dataset
    lib_call,           \* the last library call: its name and arguments
    lib_result,         \* what it returned, or the exception it raised
    arg_was,            \* ghost: the caller's dataset before the call
    calls,              \* ghost: number of library calls so far
    \* ---- the session of the Data Cleaning page ----
    session_data,       \* st.session_state.data
    session_history,    \* st.session_state.history.history
    session_was,        \* ghost: data and history before the last handler ran
    handler,            \* ghost: the handler that ran last
    failed,             \* ghost: the operation of that handler raised
    \* ---- quality scoring ----
    quality_df,         \* the dataset handed to the scoring functions
    quality_was,        \* ghost: that dataset before a value was removed from it
    quality_report,     \* the last scoring call: its name and what it returned
    \* ---- transformations applied to a dataset ----
    table,              \* the dataset a caller holds
    table_from,         \* ghost: the call whose result that dataset is
    applied,            \* the last call: its name and arguments
    produced,           \* what it returned, or the exception it raised
    \* ---- the session of the app across loads ----
    st_data,            \* st.session_state.data
    st_history,         \* st.session_state.history.history
    st_quality_score,   \* st.session_state.quality_score, with the dataset it was
                        \* calculated on (ghost)
    loads,              \* ghost: number of datasets loaded so far
    history_loads,      \* ghost: for each history entry, the load it was recorded in
    shown               \* ghost: the quality score displayed last and the dataset
                        \* held when it was

trackerVars == <<history, data, returned, raised, call, pending, undone, before>>
pipelineVars == <<steps, execution_history, pc, df, result_df, execution_log,
                  errors, idx, prev_df, outcome, result>>
runVars == <<pipeline, clock, uuid, loaded, pipeline_was, op, reports>>
\* the variables of the components other than the tracker and the stepwise
\* pipeline run
managerVars == <<pipelines, heap, pipelines_was, heap_was, touched, mop>>
batchVars == <<files, template, results, batch_results, fidx, bpc, file_result,
               cleaned_df, operations_log, tidx, step_before, step_failed>>
libraryVars == <<frames, arg, lib_call, lib_result, arg_was, calls>>
sessionVars == <<session_data, session_history, session_was, handler, failed>>
qualityVars == <<quality_df, quality_was, quality_report>>
transformVars == <<table, table_from, applied, produced>>
appVars == <<st_data, st_history, st_quality_score, loads, history_loads, shown>>
laterVars == <<qualityVars, transformVars, appVars>>
earlierVars == <<trackerVars, pipelineVars, runVars, managerVars, batchVars,
                 libraryVars, sessionVars>>
exceptQuality == <<earlierVars, transformVars, appVars>>
exceptTransform == <<earlierVars, qualityVars, appVars>>
exceptApp == <<earlierVars, qualityVars, transformVars>>
restVars == <<batchVars, libraryVars, sessionVars, laterVars>>
otherVars == <<runVars, managerVars, restVars>>
vars == <<history, data, returned, raised, call, pending, undone, before,
          steps, execution_history, pc, df, result_df, execution_log,
          errors, idx, prev_df, outcome, result,
          pipeline, clock, uuid, loaded, pipeline_was, op, reports,
          pipelines, heap, pipelines_was, heap_was, touched, mop,
          files, template, results, batch_results, fidx, bpc, file_result,
          cleaned_df, operations_log, tidx, step_before, step_failed,
          frames, arg, lib_call, lib_result, arg_was, calls,
          session_data, session_history, session_was, handler, failed,
          quality_df, quality_was, quality_report,
          table, table_from, applied, produced,
          st_data, st_history, st_quality_score, loads, history_loads, shown>>

(***************************************************************************)
(* Python values                                                           *)
(***************************************************************************)
None == [k |-> "none", n |-> 0, t |-> <<>>]
NaN == [k |-> "nan", n |-> 0, t |-> <<>>]
PyInt(x) == [k |-> "int", n |-> x, t |-> <<>>]
PyStr(s) == [k |-> "str", n |-> 0, t |-> s]
PyBool(b) == [k |-> "bool", n |-> IF b THEN 1 ELSE 0, t |-> <<>>]
PyFloat(x, fs) == [k |-> "float", n |-> x, t |-> fs]

IsNull(v) == v.k \in {"nan", "none", "nat"}

(***************************************************************************)
(* Sequence helpers                                                        *)
(***************************************************************************)
Range(s) == {s[j] : j \in 1..Len(s)}
Front(s) == SubSeq(s, 1, Len(s) - 1)
Last(s) == s[Len(s)]
LastN(s, m) == IF Len(s) <= m THEN s ELSE SubSeq(s, Len(s) - m + 1, Len(s))
IndexOf(s, x) == CHOOSE j \in 1..Len(s) : s[j] = x /\ \A h \in 1..(j - 1) : s[h] # x

\* the elements of s whose position is in keep, in order
RECURSIVE SelectAt(_, _, _)
SelectAt(s, keep, j) ==
    IF j > Len(s) THEN <<>>
    ELSE (IF j \in keep THEN <<s[j]>> ELSE <<>>) \o SelectAt(s, keep, j + 1)

(***************************************************************************)
(* Datasets: pandas DataFrames by value                                    *)
(***************************************************************************)
DataFrame(cols, dts, rws) == [columns |-> cols, dtypes |-> dts, rows |-> rws]

HasColumn(d, c) == c \in Range(d.columns)
ColPos(d, c) == IndexOf(d.columns, c)
Column(d, c) == [r \in 1..Len(d.rows) |-> d.rows[r][ColPos(d, c)]]
Shape(d) == <<Len(d.rows), Len(d.columns)>>

\* df[column] = series  (in-place column assignment of an existing column)
SetColumn(d, c, series, dt) ==
    [d EXCEPT !.dtypes[ColPos(d, c)] = dt,
              !.rows = [r \in 1..Len(d.rows) |->
                          [d.rows[r] EXCEPT ![ColPos(d, c)] = series[r]]]]

\* df[rows kept]: boolean-mask row selection
KeepRows(d, keep) == [d EXCEPT !.rows = SelectAt(d.rows, keep, 1)]

\* df.drop(columns=labels, errors='ignore') for a list of labels
DropColumns(d, labels) ==
    LET keep == {j \in 1..Len(d.columns) : d.columns[j] \notin labels}
    IN  [columns |-> SelectAt(d.columns, keep, 1),
         dtypes |-> SelectAt(d.dtypes, keep, 1),
         rows |-> [r \in 1..Len(d.rows) |-> SelectAt(d.rows[r], keep, 1)]]

\* df.drop_duplicates(): keep the first of each group of equal rows
drop_duplicates(d) ==
    KeepRows(d, {r \in 1..Len(d.rows) :
                    \A q \in 1..(r - 1) : d.rows[q] # d.rows[r]})

ColA == PyStr(<<"A">>)
ColB == PyStr(<<"B">>)
ColX == PyStr(<<"X">>)
ColDate == PyStr(<<"date">>)
Col1 == PyInt(1)

Txt_a == PyStr(<<"a">>)
Txt_b == PyStr(<<"b">>)
Txt_sp_a == PyStr(<<" ", "a">>)
Txt_day == PyStr(<<"2020-01-01">>)

\* the datasets a caller loads: a numeric column A and a text column B with two
\* equal rows; a missing value and a text column named date; integer column
\* labels (a file without a header row); no rows at all
DF_dup == DataFrame(<<ColA, ColB>>, <<"int64", "object">>,
                    <<<<PyInt(1), Txt_b>>, <<PyInt(1), Txt_b>>, <<PyInt(2), Txt_a>>>>)
DF_nan == DataFrame(<<ColA, ColDate>>, <<"float64", "object">>,
                    <<<<PyInt(2), Txt_sp_a>>, <<NaN, Txt_day>>>>)
DF_int == DataFrame(<<Col1, ColB>>, <<"int64", "object">>,
                    <<<<PyInt(1), Txt_b>>, <<PyInt(1), Txt_b>>>>)
DF_empty == DataFrame(<<ColA>>, <<"object">>, <<>>)

InputDatasets == {DF_dup, DF_nan, DF_int, DF_empty}

(***************************************************************************)
(* Text, truthiness and ordering of Python values                          *)
(***************************************************************************)
\* the pieces of text that occur, in code-point order
Alphabet == <<" ", ".", "0", "1", "2", "2020-01-01", "3", "4", "5", "6", "7",
              "8", "9", "A", "B", "False", "True", "X", "_", "a",
              "anomaly_label", "anomaly_score", "b", "date">>
Digits == <<"0", "1", "2", "3", "4", "5", "6", "7", "8", "9">>
Whitespace == {" "}

Code(piece) == IndexOf(Alphabet, piece)

RECURSIVE TextLess(_, _)
TextLess(x, y) ==
    IF x = <<>> THEN y # <<>>
    ELSE IF y = <<>> THEN FALSE
    ELSE IF Head(x) = Head(y) THEN TextLess(Tail(x), Tail(y))
    ELSE Code(Head(x)) < Code(Head(y))

\* a < b for two values of one column
Less(a, b) == IF a.k = "str" /\ b.k = "str" THEN TextLess(a.t, b.t) ELSE a.n < b.n

\* sorted(S)
RECURSIVE SortedSeq(_)
SortedSeq(S) ==
    IF S = {} THEN <<>>
    ELSE LET least == CHOOSE x \in S : \A y \in S \ {x} : Less(x, y)
         IN  <<least>> \o SortedSeq(S \ {least})

\* str(n) for n >= 0
RECURSIVE IntText(_)
IntText(x) ==
    IF x < 10 THEN <<Digits[x + 1]>>
    ELSE IntText(x \div 10) \o <<Digits[(x % 10) + 1]>>

\* str(v) for a value of a column of dtype dt
ToText(v, dt) ==
    CASE v.k = "str" -> v.t
      [] v.k = "bool" -> IF v.n = 1 THEN <<"True">> ELSE <<"False">>
      [] v.k = "int" /\ dt = "float64" -> IntText(v.n) \o <<".", "0">>
      [] v.k = "int" -> IntText(v.n)
      [] OTHER -> v.t \o IntText(v.n)

\* bool(v)
Truthy(v) ==
    CASE v.k \in {"none", "absent"} -> FALSE
      [] v.k = "str" -> v.t # <<>>
      [] v.k \in {"int", "bool"} -> v.n # 0
      [] OTHER -> TRUE

\* str.strip()
RECURSIVE LStrip(_)
LStrip(x) == IF x # <<>> /\ Head(x) \in Whitespace THEN LStrip(Tail(x)) ELSE x
RECURSIVE RStrip(_)
RStrip(x) == IF x # <<>> /\ Last(x) \in Whitespace THEN RStrip(Front(x)) ELSE x
Strip(x) == RStrip(LStrip(x))

\* re.sub(r'\s+', ' ', x)
RECURSIVE CollapseSpaces(_)
CollapseSpaces(x) ==
    IF x = <<>> THEN <<>>
    ELSE IF Head(x) \in Whitespace
         THEN <<" ">> \o CollapseSpaces(LStrip(x))
         ELSE <<Head(x)>> \o CollapseSpaces(Tail(x))

\* 'date' in col.lower() or 'time' in col.lower(), for a str label
NamesDateOrTime(label) == \E j \in 1..Len(label.t) : label.t[j] \in {"date", "time"}

(***************************************************************************)
(* Column queries                                                          *)
(***************************************************************************)
NonNull(d, c) == {v \in Range(Column(d, c)) : ~IsNull(v)}
NullCount(d, c) == Cardinality({r \in 1..Len(d.rows) : IsNull(Column(d, c)[r])})
DType(d, c) == d.dtypes[ColPos(d, c)]
IsNumericDType(dt) == dt \in {"int64", "float64"}
\* df.duplicated().sum()
DuplicatedCount(d) == Len(d.rows) - Len(drop_duplicates(d).rows)

\* Series.str on an object column: pandas refuses a column whose values are
\* all of one non-text kind ("Can only use .str accessor with string values!")
StrAccessorRaises(d, c) ==
    /\ NonNull(d, c) # {}
    /\ \A v \in NonNull(d, c) : v.k # "str"

(***************************************************************************)
(* CategoricalEncoder (operations/encoding.py)                             *)
(***************************************************************************)
\* LabelEncoder.fit_transform on the non-missing values: classes_ is the
\* sorted list of distinct values, the code of a value is its position there
label_encode(d, column) ==
    LET classes == SortedSeq(NonNull(d, column))
        series == Column(d, column)
        encoded == [r \in 1..Len(d.rows) |->
                       IF IsNull(series[r]) THEN series[r]
                       ELSE PyInt(IndexOf(classes, series[r]) - 1)]
    IN  SetColumn(d, column, encoded, DType(d, column))

\* one-hot encoding that drops the first category whatever it is told
OnehotDropFirst(d, column, drop_first) ==
    LET all == SortedSeq(NonNull(d, column))
        cats == IF all # <<>> THEN Tail(all) ELSE all
        rest == DropColumns(d, {column})
        series == Column(d, column)
        dummy(cat) == PyStr(ToText(column, "object") \o <<"_">>
                            \o ToText(cat, DType(d, column)))
    IN  [columns |-> rest.columns \o [j \in 1..Len(cats) |-> dummy(cats[j])],
         dtypes |-> rest.dtypes \o [j \in 1..Len(cats) |-> "bool"],
         rows |-> [r \in 1..Len(d.rows) |->
                     rest.rows[r] \o
                     [j \in 1..Len(cats) |-> PyBool(series[r] = cats[j])]]]

\* pd.get_dummies(df, columns=[column], drop_first=drop_first, prefix_sep='_')
onehot_encode(d, column, drop_first) ==
    LET all == SortedSeq(NonNull(d, column))
        cats == IF drop_first /\ all # <<>> THEN Tail(all) ELSE all
        dt == DType(d, column)
        rest == DropColumns(d, {column})
        series == Column(d, column)
        dummy(cat) == PyStr(ToText(column, "object") \o <<"_">> \o ToText(cat, dt))
    IN  [columns |-> rest.columns \o [j \in 1..Len(cats) |-> dummy(cats[j])],
         dtypes |-> rest.dtypes \o [j \in 1..Len(cats) |-> "bool"],
         rows |-> [r \in 1..Len(d.rows) |->
                     rest.rows[r] \o
                     [j \in 1..Len(cats) |-> PyBool(series[r] = cats[j])]]]

(***************************************************************************)
(* DataCleaner.auto_clean (operations/cleaning.py)                         *)
(***************************************************************************)
NaT == [k |-> "nat", n |-> 0, t |-> <<>>]

\* pd.to_datetime(value, errors='coerce') of one cell
ToDatetime(v) ==
    CASE v.k = "str" /\ Strip(v.t) = <<"2020-01-01">> ->
             [k |-> "datetime", n |-> 0, t |-> <<"2020-01-01">>]
      [] v.k = "int" -> [k |-> "datetime", n |-> v.n, t |-> <<>>]
      [] v.k = "datetime" -> v
      [] OTHER -> NaT

\* .str.strip() then .str.replace(r'\s+', ' ') of one cell
NormalizeText(v) ==
    IF v.k = "str" THEN PyStr(CollapseSpaces(Strip(v.t)))
    ELSE IF IsNull(v) THEN v ELSE NaN

\* for col in text_cols: strip, then collapse whitespace (the dtype stays)
NormalizeTextColumns(d, cs) ==
    [d EXCEPT !.rows = [r \in 1..Len(d.rows) |->
                          [j \in 1..Len(d.columns) |->
                              IF j \in cs THEN NormalizeText(d.rows[r][j])
                              ELSE d.rows[r][j]]]]

\* for col in columns named date/time: cleaned_df[col] = pd.to_datetime(...)
ConvertDatetimeColumns(d, cs) ==
    [d EXCEPT !.dtypes = [j \in 1..Len(d.columns) |->
                              IF j \in cs THEN "datetime64[ns]" ELSE d.dtypes[j]],
              !.rows = [r \in 1..Len(d.rows) |->
                          [j \in 1..Len(d.columns) |->
                              IF j \in cs THEN ToDatetime(d.rows[r][j])
                              ELSE d.rows[r][j]]]]

\* the state of auto_clean between its stages: cleaned_df and operations, or
\* the exception that left it
AutoCleanOk(d, operations) ==
    [raised |-> FALSE, exc |-> "", error |-> "", df |-> d, operations |-> operations]
AutoCleanRaise(d, exc, error) ==
    [raised |-> TRUE, exc |-> exc, error |-> error, df |-> d, operations |-> <<>>]

\* if duplicates_before > 0: drop_duplicates
RemoveDuplicateRows(s) ==
    IF DuplicatedCount(s.df) > 0
    THEN AutoCleanOk(drop_duplicates(s.df),
                     Append(s.operations, "Removed duplicate rows"))
    ELSE s

\* missing_pct > 0.95, the quotient being nan on a frame without rows
MostlyMissing(d) ==
    {c \in Range(d.columns) :
        Len(d.rows) > 0 /\ NullCount(d, c) * 100 > 95 * Len(d.rows)}

\* if cols_to_drop: drop them
RemoveMissingColumns(s) ==
    IF MostlyMissing(s.df) # {}
    THEN AutoCleanOk(DropColumns(s.df, MostlyMissing(s.df)),
                     Append(s.operations, "Removed columns with >95% missing values"))
    ELSE s

\* select_dtypes(include=['object']).columns, as positions
TextCols(d) == {j \in 1..Len(d.columns) : d.dtypes[j] = "object"}

\* the loop over text_cols; .str raises on a column without string values
CleanTextColumns(s) ==
    IF \E j \in TextCols(s.df) : StrAccessorRaises(s.df, s.df.columns[j])
    THEN AutoCleanRaise(s.df, "AttributeError",
                        "Can only use .str accessor with string values!")
    ELSE IF TextCols(s.df) # {}
    THEN AutoCleanOk(NormalizeTextColumns(s.df, TextCols(s.df)),
                     Append(s.operations,
                            "Cleaned text columns (whitespace normalization)"))
    ELSE s

\* the columns whose name contains 'date' or 'time', as positions
DateCols(d) ==
    {j \in 1..Len(d.columns) :
        d.columns[j].k = "str" /\ NamesDateOrTime(d.columns[j])}

\* the loop over the columns: col.lower() raises on a label that is no str
ConvertDates(s) ==
    IF s.raised THEN s
    ELSE IF \E j \in 1..Len(s.df.columns) : s.df.columns[j].k # "str"
    THEN AutoCleanRaise(s.df, "AttributeError",
                        "'int' object has no attribute 'lower'")
    ELSE AutoCleanOk(ConvertDatetimeColumns(s.df, DateCols(s.df)),
                     s.operations \o [j \in 1..Cardinality(DateCols(s.df)) |->
                                         "Converted to datetime"])

\* [raised, exc, error, df, operations]
auto_clean(d) ==
    ConvertDates(CleanTextColumns(RemoveMissingColumns(RemoveDuplicateRows(
        AutoCleanOk(d, <<>>)))))

(***************************************************************************)
(* MLDataCleaner.detect_anomalies_multivariate (operations/ml_cleaning.py) *)
(*                                                                         *)
(* The isolation forest is not computed: the rows it labels -1 are an      *)
(* input of the step, and a score is a symbolic float that equal rows      *)
(* share.                                                                  *)
(***************************************************************************)
\* a key that the parameters dict does not hold
Absent == [k |-> "absent", n |-> 0, t |-> <<>>]
\* dict.get(key, default)
Get(value, default) == IF value.k = "absent" THEN default ELSE value

ColAnomalyLabel == PyStr(<<"anomaly_label">>)
ColAnomalyScore == PyStr(<<"anomaly_score">>)

\* df[name] = series: replaces the column or appends it
AssignColumn(d, c, series, dt) ==
    IF HasColumn(d, c) THEN SetColumn(d, c, series, dt)
    ELSE [columns |-> Append(d.columns, c),
          dtypes |-> Append(d.dtypes, dt),
          rows |-> [r \in 1..Len(d.rows) |-> Append(d.rows[r], series[r])]]

FirstEqualRow(d, r) == CHOOSE q \in 1..r : d.rows[q] = d.rows[r] /\
                                          \A h \in 1..(q - 1) : d.rows[h] # d.rows[r]

\* contamination: 0.1 is n = 1 tenth; IsolationForest accepts (0, 0.5]
Tenth == [k |-> "float", n |-> 1, t |-> <<"tenth">>]
ValidContamination(c) == c.k = "float" /\ c.t = <<"tenth">> /\ c.n \in 1..5

\* [raised, exc, error, df, total_anomalies]
detect_anomalies_multivariate(d, contamination, selected_columns, anomalies) ==
    LET numeric == {c \in Range(d.columns) : IsNumericDType(DType(d, c))}
        numeric_cols == IF selected_columns # <<>>
                        THEN numeric \cap Range(selected_columns) ELSE numeric
        labels == [r \in 1..Len(d.rows) |->
                      IF r \in anomalies THEN PyInt(-1) ELSE PyInt(1)]
        scores == [r \in 1..Len(d.rows) |->
                      PyFloat(FirstEqualRow(d, r), <<"anomaly_score">>)]
        labelled == AssignColumn(d, ColAnomalyLabel, labels, "int64")
    IN  IF numeric_cols = {}
        THEN [raised |-> FALSE, exc |-> "", error |-> "", df |-> d,
              total_anomalies |-> 0]
        ELSE IF ~ValidContamination(Get(contamination, Tenth))
        THEN [raised |-> TRUE, exc |-> "InvalidParameterError",
              error |-> "The 'contamination' parameter of IsolationForest must be a str among {'auto'} or a float in the range (0.0, 0.5]",
              df |-> d, total_anomalies |-> 0]
        ELSE IF Len(d.rows) = 0
        THEN [raised |-> TRUE, exc |-> "ValueError",
              error |-> "Found array with 0 sample(s)",
              df |-> d, total_anomalies |-> 0]
        ELSE IF \E c \in numeric_cols : NonNull(d, c) = {}
        THEN [raised |-> TRUE, exc |-> "ValueError",
              error |-> "Input X contains NaN",
              df |-> d, total_anomalies |-> 0]
        ELSE [raised |-> FALSE, exc |-> "", error |-> "",
              df |-> AssignColumn(labelled, ColAnomalyScore, scores, "float64"),
              total_anomalies |-> Cardinality(anomalies)]

(***************************************************************************)
(* Pipeline (operations/workflow_pipeline.py)                              *)
(***************************************************************************)
MaxSteps == 2
MaxRuns == 1

\* the value of the 'columns' key: absent, None, a list of labels, or one label
NoColumns == [k |-> "absent", items |-> <<>>]
ColumnList(labels) == [k |-> "list", items |-> labels]
OneColumn(label) == [k |-> "label", items |-> <<label>>]
NoneColumns == [k |-> "none", items |-> <<>>]
\* the value of the 'condition' key: absent, or the query  col > val
NoCondition == [k |-> "absent", col |-> None, val |-> 0]
Query(c, v) == [k |-> "query", col |-> c, val |-> v]

NoParams ==
    [column |-> Absent, columns |-> NoColumns, method |-> Absent,
     type |-> Absent, drop_first |-> Absent, contamination |-> Absent,
     condition |-> NoCondition, transformation |-> Absent]

PipelineStep(step_id, name, operation, parameters) ==
    [step_id |-> step_id, name |-> name, operation |-> operation,
     parameters |-> parameters]

\* what one pass through the body of the try statement leaves behind:
\* status is "success" (a log entry was appended), "error" (an exception was
\* raised) or "none" (the body ended without appending anything); df is what
\* result_df is bound to at that point
Success(d, fmt, num, v) ==
    [status |-> "success", df |-> d, exc |-> "", error |-> "",
     result |-> [fmt |-> fmt, n |-> num, v |-> v]]
Raise(d, exc, error) ==
    [status |-> "error", df |-> d, exc |-> exc, error |-> error,
     result |-> [fmt |-> "Error", n |-> 0, v |-> None]]
Nothing(d) ==
    [status |-> "none", df |-> d, exc |-> "", error |-> "",
     result |-> [fmt |-> "", n |-> 0, v |-> None]]

\* column and column in result_df.columns
ColumnGuard(d, column) == Truthy(column) /\ HasColumn(d, column)

RemoveDuplicatesStep(d) ==
    LET after == drop_duplicates(d)
    IN  Success(after, "Removed duplicates", Len(d.rows) - Len(after.rows), None)

\* drop with errors='raise': a label that is no column raises KeyError
DropColumnsStrict(d, params) ==
    IF \E c \in Range(params.columns.items) : ~HasColumn(d, c)
    THEN Raise(d, "KeyError", "not found in axis")
    ELSE Success(DropColumns(d, Range(params.columns.items)), "Dropped columns",
                 Len(params.columns.items), None)

\* result_df = result_df.drop(columns=columns, errors='ignore'), then
\* len(columns) in the log message
DropColumnsStep(d, params) ==
    LET columns == params.columns
        dropped == DropColumns(d, Range(columns.items))
    IN  CASE columns.k = "none" ->
                 Raise(d, "ValueError",
                       "Need to specify at least one of 'labels', 'index' or 'columns'")
          [] columns.k = "label" /\ columns.items[1].k = "str" ->
                 Success(dropped, "Dropped columns", Len(columns.items[1].t), None)
          [] columns.k = "label" ->
                 Raise(dropped, "TypeError", "object of type 'int' has no len()")
          [] OTHER ->
                 Success(dropped, "Dropped columns", Len(columns.items), None)

\* impute_column(result_df, column, method, **params): params holds the key
\* 'column', which the call also passes by position
ImputeStep(d, params) ==
    LET column == Get(params.column, None)
    IN  IF ColumnGuard(d, column)
        THEN Raise(d, "TypeError",
                   "impute_column() got multiple values for argument 'column'")
        ELSE Nothing(d)

EncodeStep(d, params) ==
    LET column == Get(params.column, None)
        encoding_type == Get(params.type, PyStr(<<"label">>))
        drop_first == Truthy(Get(params.drop_first, PyBool(TRUE)))
    IN  IF ColumnGuard(d, column)
        THEN Success(CASE encoding_type = PyStr(<<"label">>) -> label_encode(d, column)
                       [] encoding_type = PyStr(<<"onehot">>) ->
                              onehot_encode(d, column, drop_first)
                       [] OTHER -> d,
                     "Encoded", 0, column)
        ELSE Nothing(d)

\* detect_outliers(result_df, column, method=method, **params): params holds
\* the key 'column', which the call also passes by position
DetectOutliersStep(d, params) ==
    LET column == Get(params.column, None)
    IN  IF ColumnGuard(d, column)
        THEN Raise(d, "TypeError",
                   "detect_outliers() got multiple values for argument 'column'")
        ELSE Nothing(d)

RemoveOutliersStep(d, params) ==
    LET column == Get(params.column, None)
    IN  IF ColumnGuard(d, column)
        THEN Raise(d, "TypeError",
                   "detect_outliers() got multiple values for argument 'column'")
        ELSE Nothing(d)

MlAnomalyStep(d, params, anomalies) ==
    LET r == detect_anomalies_multivariate(d, params.contamination,
                                           params.columns.items, anomalies)
    IN  IF r.raised THEN Raise(d, r.exc, r.error)
        ELSE Success(r.df, "Detected anomalies", r.total_anomalies, None)

AutoCleanStep(d) ==
    LET r == auto_clean(d)
    IN  IF r.raised THEN Raise(d, r.exc, r.error)
        ELSE Success(r.df, "Applied auto-clean operations", Len(r.operations), None)

\* a cell that Python cannot compare with an int
NotComparable(v) == v.k \in {"str", "none", "datetime", "nat"}

\* result_df.query("col > val"); the queries name columns of ints and text
FilterRowsStep(d, params) ==
    LET condition == params.condition
        kept == KeepRows(d, {r \in 1..Len(d.rows) :
                               /\ Column(d, condition.col)[r].k \in {"int", "bool"}
                               /\ Column(d, condition.col)[r].n > condition.val})
    IN  IF condition.k = "absent" THEN Nothing(d)
        ELSE IF ~HasColumn(d, condition.col)
        THEN Raise(d, "UndefinedVariableError", "name is not defined")
        ELSE IF \E v \in Range(Column(d, condition.col)) : NotComparable(v)
        THEN Raise(d, "TypeError",
                   "'>' not supported between instances of 'str' and 'int'")
        ELSE Success(kept, "Filtered rows", Len(d.rows) - Len(kept.rows), None)

\* np.log1p / np.sqrt of one cell of a numeric column
ApplyFloat(v, fn) ==
    IF IsNull(v) THEN v ELSE PyFloat(v.n, Append(v.t, fn))
\* x ** 2 of one cell
Square(v) ==
    IF IsNull(v) THEN v
    ELSE IF v.k = "float" THEN PyFloat(v.n, Append(v.t, "square"))
    ELSE PyInt(v.n * v.n)

\* result_df[column] = f(result_df[column]), an in-place column assignment
TransformColumnStep(d, params) ==
    LET column == Get(params.column, None)
        transformation == Get(params.transformation, PyStr(<<"log">>))
        dt == DType(d, column)
        series == Column(d, column)
        uf(fn) ==
            IF IsNumericDType(dt) \/ dt = "bool"
            THEN Success(SetColumn(d, column,
                                   [r \in 1..Len(d.rows) |-> ApplyFloat(series[r], fn)],
                                   "float64"),
                         "Applied", 0, column)
            ELSE IF Len(d.rows) = 0 THEN Success(d, "Applied", 0, column)
            ELSE Raise(d, "TypeError",
                       "loop of ufunc does not support argument 0 of type str")
    IN  IF ~ColumnGuard(d, column) THEN Nothing(d)
        ELSE CASE transformation = PyStr(<<"log">>) -> uf("log1p")
               [] transformation = PyStr(<<"sqrt">>) -> uf("sqrt")
               [] transformation = PyStr(<<"square">>) ->
                      IF \E v \in Range(series) : v.k \in {"str", "none", "datetime"}
                      THEN Raise(d, "TypeError",
                                 "unsupported operand type(s) for ** or pow(): 'str' and 'int'")
                      ELSE Success(SetColumn(d, column,
                                             [r \in 1..Len(d.rows) |-> Square(series[r])],
                                             dt),
                                   "Applied", 0, column)
               [] OTHER -> Success(d, "Applied", 0, column)

\* the if/elif chain of execute on step.operation
RunStep(step, d, anomalies) ==
    LET operation == step.operation
        params == step.parameters
    IN  CASE operation = "remove_duplicates" -> RemoveDuplicatesStep(d)
          [] operation = "drop_columns" -> DropColumnsStep(d, params)
          [] operation = "impute" -> ImputeStep(d, params)
          [] operation = "encode" -> EncodeStep(d, params)
          [] operation = "detect_outliers" -> DetectOutliersStep(d, params)
          [] operation = "remove_outliers" -> RemoveOutliersStep(d, params)
          [] operation = "ml_anomaly_detection" -> MlAnomalyStep(d, params, anomalies)
          [] operation = "auto_clean" -> AutoCleanStep(d)
          [] operation = "filter_rows" -> FilterRowsStep(d, params)
          [] operation = "transform_column" -> TransformColumnStep(d, params)
          [] OTHER -> Nothing(d)

\* except ValueError: only that class is caught
CatchesValueErrorOnly(exc) == exc = "ValueError"

\* except Exception: every exception a step raises is an Exception
Catches(exc) == TRUE

LogEntry(step, r) ==
    [step |-> step.name, operation |-> step.operation, result |-> r.result,
     error |-> r.error, status |-> r.status]
ErrorEntry(step, r) ==
    [step |-> step.name, operation |-> step.operation, error |-> r.error]

\* the rows the isolation forest may label -1: none unless the step runs it
AnomalyChoices(step, d) ==
    IF step.operation = "ml_anomaly_detection"
    THEN SUBSET (1..Len(d.rows)) ELSE {{}}

ExecutionReport(d, res, log, errs) ==
    [total_steps |-> Len(steps),
     successful_steps |-> Cardinality({j \in 1..Len(log) : log[j].status = "success"}),
     failed_steps |-> Len(errs),
     execution_log |-> log,
     errors |-> errs,
     input_shape |-> Shape(d),
     output_shape |-> Shape(res)]

(***************************************************************************)
(* HistoryTracker (core/history_tracker.py) and its callers in app.py      *)
(*                                                                         *)
(* A reference to a DataFrame object is [val, live]: val is the object's   *)
(* current value and live says whether it is the very object that          *)
(* st.session_state.data names, which is the only object the session       *)
(* mutates in place.                                                       *)
(***************************************************************************)
max_history == 50

MaxPending == 52

Ref(v, isLive) == [val |-> v, live |-> isLive]

\* the snapshot is stored without copying it
NoCopy(ref) == ref

\* DataFrame.copy(): a new object with the same value
Copy(ref) == Ref(ref.val, FALSE)

Entry(operation, data_snapshot) ==
    [operation |-> operation, data |-> Copy(data_snapshot)]

\* the size limit is never applied
NoLimit(h) == h

\* the newest entry is evicted: list.pop() in place of list.pop(0)
LimitNewest(h) == IF Len(h) > max_history THEN Front(h) ELSE h

\* list.pop(0) once the list is longer than max_history
LimitHistory(h) == IF Len(h) > max_history THEN Tail(h) ELSE h

AddOperationResult(h, operation, data_snapshot) ==
    LimitHistory(Append(h, Entry(operation, data_snapshot)))

\* the last entry is read but not removed
UndoPeek(h) ==
    IF h # <<>>
    THEN [history |-> h, returned |-> Last(h).data, raised |-> FALSE]
    ELSE [history |-> h, returned |-> None, raised |-> FALSE]

\* list.pop() without the emptiness test: IndexError on an empty list
UndoUnguarded(h) ==
    IF h # <<>>
    THEN [history |-> Front(h), returned |-> Last(h).data, raised |-> FALSE]
    ELSE [history |-> h, returned |-> None, raised |-> TRUE]

\* undo: [history, returned, raised] after the call
UndoResult(h) ==
    IF h # <<>>
    THEN [history |-> Front(h), returned |-> Last(h).data, raised |-> FALSE]
    ELSE [history |-> h, returned |-> None, raised |-> FALSE]

ClearResult(h) == <<>>

OperationLabels == {"Type Conversion"}
ConvertColumns == {ColA}
TargetTypes == {"object"}

\* Series.astype(target_type)
AsType(d, c, target_type) ==
    IF target_type = "object"
    THEN [dtype |-> "object", values |-> Column(d, c)]
    ELSE [dtype |-> d.dtypes[ColPos(d, c)], values |-> Column(d, c)]

\* an in-place change of the live object reaches every reference to it
Mutated(h, v) ==
    [j \in 1..Len(h) |->
        IF h[j].data.live THEN [h[j] EXCEPT !.data.val = v] ELSE h[j]]

Unshared(h) ==
    [j \in 1..Len(h) |-> [h[j] EXCEPT !.data.live = FALSE]]

TrackerInit ==
    /\ history = <<>>
    /\ data = None
    /\ returned = None
    /\ raised = FALSE
    /\ call = "init"
    /\ pending = <<>>
    /\ undone = FALSE
    /\ before = None

\* app.py: a file is loaded into the session
LoadData(d) ==
    /\ data = None
    /\ data' = d
    /\ call' = "load"
    /\ before' = data
    /\ UNCHANGED <<history, returned, raised, pending, undone>>
    /\ UNCHANGED <<pipelineVars, otherVars>>

\* HistoryTracker.add_operation(operation, data_snapshot), the caller passing
\* the live dataset or a copy of it
add_operation(operation, passLive) ==
    /\ data # None
    /\ Len(pending) < MaxPending
    /\ history' = AddOperationResult(history, operation, Ref(data, passLive))
    /\ pending' = Append(pending, data)
    /\ returned' = None
    /\ raised' = FALSE
    /\ call' = "add_operation"
    /\ before' = data
    /\ UNCHANGED <<data, undone>>
    /\ UNCHANGED <<pipelineVars, otherVars>>

\* app.py Type Conversion: st.session_state.data[col] = df[col].astype(t)
ConvertInPlace(c, target_type) ==
    /\ data # None
    /\ HasColumn(data, c)
    /\ LET s == AsType(data, c, target_type)
           d2 == SetColumn(data, c, s.values, s.dtype)
       IN  /\ data' = d2
           /\ history' = Mutated(history, d2)
    /\ call' = "convert"
    /\ before' = data
    /\ UNCHANGED <<returned, raised, pending, undone>>
    /\ UNCHANGED <<pipelineVars, otherVars>>

\* HistoryTracker.undo() and the caller's st.session_state.data = previous_df
undo ==
    LET u == UndoResult(history)
    IN  /\ returned' = u.returned
        /\ raised' = u.raised
        /\ IF u.returned # None /\ ~u.raised
           THEN /\ data' = u.returned.val
                /\ history' = Unshared(u.history)
           ELSE /\ data' = data
                /\ history' = u.history
        /\ pending' = IF history = <<>> THEN pending ELSE Front(pending)
        /\ undone' = TRUE
        /\ before' = data
        /\ call' = "undo"
        /\ UNCHANGED <<pipelineVars, otherVars>>

\* HistoryTracker.clear()
clear ==
    /\ history' = ClearResult(history)
    /\ pending' = <<>>
    /\ returned' = None
    /\ raised' = FALSE
    /\ call' = "clear"
    /\ undone' = FALSE
    /\ before' = data
    /\ UNCHANGED data
    /\ UNCHANGED <<pipelineVars, otherVars>>

PipelineIdle ==
    /\ steps = <<>>
    /\ execution_history = <<>>
    /\ pc = "idle"
    /\ df = None
    /\ result_df = None
    /\ execution_log = <<>>
    /\ errors = <<>>
    /\ idx = 0
    /\ prev_df = None
    /\ outcome = "none"
    /\ result = None

TrackerNext ==
    \/ \E d \in {DF_dup, DF_nan} : LoadData(d)
    \/ \E o \in OperationLabels, p \in BOOLEAN : add_operation(o, p)
    \/ \E c \in ConvertColumns, t \in TargetTypes : ConvertInPlace(c, t)
    \/ undo
    \/ clear


(***************************************************************************)
(* Pipeline: add_step and execute                                          *)
(***************************************************************************)
Params(column, columns, type, condition, transformation) ==
    [NoParams EXCEPT !.column = column, !.columns = columns, !.type = type,
                     !.condition = condition, !.transformation = transformation]
StepInput(operation, parameters) ==
    [operation |-> operation, parameters |-> parameters]

\* the steps a caller adds
StepInputs ==
    { StepInput("remove_duplicates", NoParams),
      StepInput("drop_columns",
                Params(Absent, ColumnList(<<ColA>>), Absent, NoCondition, Absent)),
      StepInput("drop_columns",
                Params(Absent, ColumnList(<<ColX>>), Absent, NoCondition, Absent)),
      StepInput("drop_columns",
                Params(Absent, OneColumn(Col1), Absent, NoCondition, Absent)),
      StepInput("impute",
                [Params(ColA, NoColumns, Absent, NoCondition, Absent)
                    EXCEPT !.method = PyStr(<<"Mean">>)]),
      StepInput("encode", Params(ColB, NoColumns, Absent, NoCondition, Absent)),
      StepInput("detect_outliers",
                Params(ColA, NoColumns, Absent, NoCondition, Absent)),
      StepInput("remove_outliers",
                Params(ColA, NoColumns, Absent, NoCondition, Absent)),
      StepInput("ml_anomaly_detection", NoParams),
      StepInput("auto_clean", NoParams),
      StepInput("filter_rows",
                Params(Absent, NoColumns, Absent, Query(ColA, 1), Absent)),
      StepInput("transform_column",
                Params(ColA, NoColumns, Absent, NoCondition, PyStr(<<"square">>))),
      StepInput("normalize", NoParams) }

KnownOperations ==
    {"remove_duplicates", "drop_columns", "impute", "encode", "detect_outliers",
     "remove_outliers", "ml_anomaly_detection", "auto_clean", "filter_rows",
     "transform_column"}

\* Pipeline.add_step: the step gets a fresh step_id; the caller names the step
\* after its position
add_step(operation, parameters) ==
    /\ pc = "idle"
    /\ Len(steps) < MaxSteps
    /\ steps' = Append(steps, PipelineStep(Len(steps) + 1, Len(steps) + 1,
                                           operation, parameters))
    /\ UNCHANGED <<execution_history, pc, df, result_df, execution_log, errors,
                   idx, prev_df, outcome, result>>
    /\ UNCHANGED <<trackerVars, otherVars>>

\* execute, up to the for loop: result_df = df.copy()
ExecuteStart(d) ==
    /\ pc = "idle"
    /\ Len(execution_history) < MaxRuns
    /\ df' = d
    /\ result_df' = d
    /\ execution_log' = <<>>
    /\ errors' = <<>>
    /\ idx' = 0
    /\ prev_df' = None
    /\ outcome' = "none"
    /\ result' = None
    /\ pc' = "loop"
    /\ UNCHANGED <<steps, execution_history>>
    /\ UNCHANGED <<trackerVars, otherVars>>

\* the steps reversed
NextStepReversed(ss, visited) == ss[Len(ss) - visited]

\* for step in self.steps: the step the loop visits after `visited` steps
NextStep(ss, visited) == ss[visited + 1]

\* execute: one iteration of the for loop
ExecuteStep ==
    /\ pc = "loop"
    /\ idx < Len(steps)
    /\ \E anomalies \in AnomalyChoices(NextStep(steps, idx), result_df) :
         LET step == NextStep(steps, idx)
             r == RunStep(step, result_df, anomalies)
         IN  IF r.status = "error" /\ ~Catches(r.exc)
             THEN /\ pc' = "raised"
                  /\ outcome' = "propagated"
                  /\ UNCHANGED <<result_df, execution_log, errors, idx, prev_df>>
             ELSE /\ result_df' = r.df
                  /\ execution_log' = IF r.status = "none" THEN execution_log
                                      ELSE Append(execution_log, LogEntry(step, r))
                  /\ errors' = IF r.status = "error"
                               THEN Append(errors, ErrorEntry(step, r)) ELSE errors
                  /\ idx' = idx + 1
                  /\ prev_df' = result_df
                  /\ outcome' = r.status
                  /\ pc' = pc
    /\ UNCHANGED <<steps, execution_history, df, result>>
    /\ UNCHANGED <<trackerVars, otherVars>>

\* execute, after the loop: the report is built, appended to
\* execution_history and returned with result_df
ExecuteReturn ==
    /\ pc = "loop"
    /\ idx = Len(steps)
    /\ LET execution_report == ExecutionReport(df, result_df, execution_log, errors)
       IN  /\ execution_history' = Append(execution_history, execution_report)
           /\ result' = [df |-> result_df, report |-> execution_report]
    /\ pc' = "idle"
    /\ UNCHANGED <<steps, df, result_df, execution_log, errors, idx, prev_df, outcome>>
    /\ UNCHANGED <<trackerVars, otherVars>>

PipelineNext ==
    \/ \E i \in StepInputs : add_step(i.operation, i.parameters)
    \/ \E d \in InputDatasets : ExecuteStart(d)
    \/ ExecuteStep
    \/ ExecuteReturn

(***************************************************************************)
(* A Pipeline object: add_step, execute as one call, to_dict / from_dict   *)
(***************************************************************************)
MaxRunSteps == 2
MaxExecutions == 12
\* self.execution_history[-10:]
KeptExecutions == 10

\* Pipeline.__init__ at time now
Pipeline(pipeline_id, name, description, now) ==
    [pipeline_id |-> pipeline_id, name |-> name, description |-> description,
     steps |-> <<>>, created |-> now, last_modified |-> now,
     execution_history |-> <<>>]

\* PipelineStep.__init__ at time now, with its timestamp
NewStep(step_id, name, operation, parameters, now) ==
    PipelineStep(step_id, name, operation, parameters) @@ [timestamp |-> now]

\* Pipeline.add_step: the new step gets the next uuid4
AddStepResult(p, step_id, name, operation, parameters, now) ==
    [p EXCEPT !.steps = Append(@, NewStep(step_id, name, operation, parameters, now)),
              !.last_modified = now]

\* PipelineStep.to_dict
step_to_dict(step) ==
    [step_id |-> step.step_id, name |-> step.name, operation |-> step.operation,
     parameters |-> step.parameters, timestamp |-> step.timestamp]

\* PipelineStep.from_dict
step_from_dict(d, now) ==
    [NewStep(d.step_id, d.name, d.operation, d.parameters, now)
        EXCEPT !.timestamp = d.timestamp]

\* the first n elements of a list
FirstN(s, n) == IF Len(s) <= n THEN s ELSE SubSeq(s, 1, n)

\* to_dict keeping self.execution_history[:10]
to_dict_oldest(p) ==
    [pipeline_id |-> p.pipeline_id, name |-> p.name, description |-> p.description,
     steps |-> [j \in 1..Len(p.steps) |-> step_to_dict(p.steps[j])],
     created |-> p.created, last_modified |-> p.last_modified,
     execution_history |-> FirstN(p.execution_history, KeptExecutions)]

\* Pipeline.to_dict
to_dict(p) ==
    [pipeline_id |-> p.pipeline_id, name |-> p.name, description |-> p.description,
     steps |-> [j \in 1..Len(p.steps) |-> step_to_dict(p.steps[j])],
     created |-> p.created, last_modified |-> p.last_modified,
     execution_history |-> LastN(p.execution_history, KeptExecutions)]

\* Pipeline.from_dict
from_dict(d, now) ==
    [Pipeline(d.pipeline_id, d.name, d.description, now)
        EXCEPT !.created = d.created,
               !.last_modified = d.last_modified,
               !.steps = [j \in 1..Len(d.steps) |-> step_from_dict(d.steps[j], now)],
               !.execution_history = d.execution_history]

\* result_df, execution_log and errors before the loop
LoopStart(d) ==
    [raised |-> FALSE, df |-> d, execution_log |-> <<>>, errors |-> <<>>]

\* one iteration of the loop of execute, r being what the step did
LoopRecord(acc, step, r) ==
    IF acc.raised THEN acc
    ELSE IF r.status = "error" /\ ~Catches(r.exc) THEN [acc EXCEPT !.raised = TRUE]
    ELSE [raised |-> FALSE,
          df |-> r.df,
          execution_log |-> IF r.status = "none" THEN acc.execution_log
                            ELSE Append(acc.execution_log, LogEntry(step, r)),
          errors |-> IF r.status = "error"
                     THEN Append(acc.errors, ErrorEntry(step, r)) ELSE acc.errors]

LoopIteration(acc, step) == LoopRecord(acc, step, RunStep(step, acc.df, {}))

\* the for loop of execute over the steps ss (none of them the isolation forest)
RECURSIVE LoopResult(_, _)
LoopResult(ss, d) ==
    IF ss = <<>> THEN LoopStart(d)
    ELSE LoopIteration(LoopResult(Front(ss), d), Last(ss))

\* execution_report of a run that started at time now
PipelineReport(p, d, acc, now) ==
    [pipeline_id |-> p.pipeline_id,
     pipeline_name |-> p.name,
     start_time |-> now,
     end_time |-> now + 1,
     total_steps |-> Len(p.steps),
     successful_steps |-> Cardinality({j \in 1..Len(acc.execution_log) :
                                          acc.execution_log[j].status = "success"}),
     failed_steps |-> Len(acc.errors),
     execution_log |-> acc.execution_log,
     errors |-> acc.errors,
     input_shape |-> Shape(d),
     output_shape |-> Shape(acc.df)]

\* an execute that also stamps last_modified
ExecuteReturnsTouching(p, res, report) ==
    [raised |-> FALSE,
     pipeline |-> [p EXCEPT !.execution_history = Append(@, report),
                            !.last_modified = report.end_time],
     df |-> res, report |-> report]

\* self.execution_history.append(execution_report); return result_df, report
ExecuteReturns(p, res, report) ==
    [raised |-> FALSE,
     pipeline |-> [p EXCEPT !.execution_history = Append(@, report)],
     df |-> res, report |-> report]

ExecuteFinish(p, d, acc, now) ==
    IF acc.raised
    THEN [raised |-> TRUE, pipeline |-> p, df |-> None, report |-> None]
    ELSE ExecuteReturns(p, acc.df, PipelineReport(p, d, acc, now))

\* Pipeline.execute as one call: [raised, pipeline, df, report]
execute(p, d, now) == ExecuteFinish(p, d, LoopResult(p.steps, d), now)

\* the steps and the dataset of the runs
RunStepInputs ==
    { StepInput("remove_duplicates", NoParams),
      StepInput("impute",
                [Params(ColA, NoColumns, Absent, NoCondition, Absent)
                    EXCEPT !.method = PyStr(<<"Mean">>)]) }
RunDatasets == {DF_dup}

RunsInit ==
    /\ pipeline = Pipeline("pipeline-1", "Basic Data Cleaning", "", 0)
    /\ clock = 1
    /\ uuid = 0
    /\ loaded = None
    /\ pipeline_was = None
    /\ op = "init"
    /\ reports = <<>>

\* pipeline.add_step(name, operation, parameters)
PipelineAddStep(i) ==
    /\ Len(pipeline.steps) < MaxRunSteps
    /\ pipeline' = AddStepResult(pipeline, uuid + 1, i.operation, i.operation,
                                 i.parameters, clock)
    /\ uuid' = uuid + 1
    /\ clock' = clock + 1
    /\ pipeline_was' = pipeline
    /\ op' = "add_step"
    /\ UNCHANGED <<loaded, reports>>
    /\ UNCHANGED <<trackerVars, pipelineVars, managerVars, restVars>>

\* pipeline.execute(df)
PipelineExecute(d) ==
    /\ Len(reports) < MaxExecutions
    /\ LET e == execute(pipeline, d, clock)
       IN  /\ ~e.raised
           /\ pipeline' = e.pipeline
           /\ reports' = Append(reports, e.report)
    /\ clock' = clock + 2
    /\ pipeline_was' = pipeline
    /\ op' = "execute"
    /\ UNCHANGED <<uuid, loaded>>
    /\ UNCHANGED <<trackerVars, pipelineVars, managerVars, restVars>>

\* Pipeline.from_dict(pipeline.to_dict())
RoundTrip ==
    /\ loaded' = from_dict(to_dict(pipeline), clock)
    /\ pipeline_was' = pipeline
    /\ op' = "from_dict"
    /\ UNCHANGED <<pipeline, clock, uuid, reports>>
    /\ UNCHANGED <<trackerVars, pipelineVars, managerVars, restVars>>

RunsNext ==
    \/ \E i \in RunStepInputs : PipelineAddStep(i)
    \/ \E d \in RunDatasets : PipelineExecute(d)
    \/ RoundTrip

(***************************************************************************)
(* WorkflowManager: create, duplicate, and the step edits of its pipelines *)
(* Every call of this component happens within one tick of the clock.      *)
(***************************************************************************)
MaxPipelines == 2
MaxManagerSteps == 2
MaxUuid == 5
MaxListLen == 2
MaxHeap == 3

\* a parameter value that is a list object: the address of the list
ListRef(a) == [k |-> "ref", items |-> <<>>, addr |-> a]

\* the parameters as a reader sees them: list objects replaced by their items
Deref(params, h) ==
    IF params.columns.k = "ref"
    THEN [params EXCEPT !.columns = ColumnList(h[params.columns.addr])]
    ELSE params

\* the steps of a pipeline as a reader sees them
StepsView(p, h) ==
    [j \in 1..Len(p.steps) |->
        [p.steps[j] EXCEPT !.parameters = Deref(p.steps[j].parameters, h)]]

\* dict.copy(): a new dict with the same values, list objects shared
DictCopy(params) == params

\* WorkflowManager.create_pipeline
CreatePipelineResult(ps, pipeline_id, name, description, now) ==
    ps @@ (pipeline_id :> Pipeline(pipeline_id, name, description, now))

\* the loop of duplicate_pipeline: new_pipeline.add_step(step.name,
\* step.operation, step.parameters.copy()), the j-th new step taking the
\* uuid4 number first + j
RECURSIVE DuplicateSteps(_, _, _, _)
DuplicateSteps(new_pipeline, ss, first, now) ==
    IF ss = <<>> THEN new_pipeline
    ELSE AddStepResult(DuplicateSteps(new_pipeline, Front(ss), first, now),
                       first + Len(ss), Last(ss).name, Last(ss).operation,
                       DictCopy(Last(ss).parameters), now)

\* Pipeline.remove_step: the first step with that id is removed, if any
RemoveStepResult(p, step_id, now) ==
    IF \E j \in 1..Len(p.steps) : p.steps[j].step_id = step_id
    THEN LET i == CHOOSE j \in 1..Len(p.steps) :
                      /\ p.steps[j].step_id = step_id
                      /\ \A h \in 1..(j - 1) : p.steps[h].step_id # step_id
         IN  [p EXCEPT !.steps = SelectAt(p.steps, (1..Len(p.steps)) \ {i}, 1),
                       !.last_modified = now]
    ELSE p

\* step_dict = {step.step_id: step for step in self.steps}: the last step
\* with an id wins
StepDict(ss, sid) ==
    ss[CHOOSE j \in 1..Len(ss) :
          /\ ss[j].step_id = sid
          /\ \A h \in (j + 1)..Len(ss) : ss[h].step_id # sid]

\* [step_dict[sid] for sid in step_ids if sid in step_dict]
RECURSIVE Reordered(_, _)
Reordered(ss, step_ids) ==
    IF step_ids = <<>> THEN <<>>
    ELSE IF \E j \in 1..Len(ss) : ss[j].step_id = Last(step_ids)
    THEN Append(Reordered(ss, Front(step_ids)), StepDict(ss, Last(step_ids)))
    ELSE Reordered(ss, Front(step_ids))

\* Pipeline.reorder_steps
ReorderStepsResult(p, step_ids, now) ==
    [p EXCEPT !.steps = Reordered(p.steps, step_ids), !.last_modified = now]

\* the step_ids lists a caller passes to reorder_steps: ids of the pipeline,
\* in any order, possibly repeated or incomplete
Orders(p) ==
    UNION {[1..n -> {p.steps[j].step_id : j \in 1..Len(p.steps)}] :
              n \in 0..Len(p.steps)}

ManagerInit ==
    /\ pipelines = <<>>
    /\ heap = <<>>
    /\ pipelines_was = <<>>
    /\ heap_was = <<>>
    /\ touched = 0
    /\ mop = "init"

\* the frame of a WorkflowManager call
ManagerCall(pipeline_id, name) ==
    /\ pipelines_was' = pipelines
    /\ heap_was' = heap
    /\ touched' = pipeline_id
    /\ mop' = name
    /\ UNCHANGED <<pipeline, clock, loaded, pipeline_was, op, reports>>
    /\ UNCHANGED <<trackerVars, pipelineVars, restVars>>

\* manager.create_pipeline(name, description)
create_pipeline(name, description) ==
    /\ Cardinality(DOMAIN pipelines) < MaxPipelines
    /\ uuid < MaxUuid
    /\ pipelines' = CreatePipelineResult(pipelines, uuid + 1, name, description, clock)
    /\ uuid' = uuid + 1
    /\ UNCHANGED heap
    /\ ManagerCall(uuid + 1, "create_pipeline")

\* pipeline.add_step("Drop", "drop_columns", {'columns': ['A']})
ManagerAddStep(pipeline_id) ==
    /\ pipeline_id \in DOMAIN pipelines
    /\ Len(pipelines[pipeline_id].steps) < MaxManagerSteps
    /\ uuid < MaxUuid
    /\ Len(heap) < MaxHeap
    /\ heap' = Append(heap, <<ColA>>)
    /\ pipelines' =
          [pipelines EXCEPT ![pipeline_id] =
              AddStepResult(@, uuid + 1, "Drop", "drop_columns",
                            Params(Absent, ListRef(Len(heap) + 1), Absent,
                                   NoCondition, Absent),
                            clock)]
    /\ uuid' = uuid + 1
    /\ ManagerCall(pipeline_id, "add_step")

\* manager.duplicate_pipeline(pipeline_id, new_name)
duplicate_pipeline(pipeline_id, new_name) ==
    /\ pipeline_id \in DOMAIN pipelines
    /\ Cardinality(DOMAIN pipelines) < MaxPipelines
    /\ uuid + 1 + Len(pipelines[pipeline_id].steps) <= MaxUuid
    /\ pipelines' =
          pipelines @@
          ((uuid + 1) :>
              DuplicateSteps(Pipeline(uuid + 1, new_name,
                                      pipelines[pipeline_id].description, clock),
                             pipelines[pipeline_id].steps, uuid + 1, clock))
    /\ uuid' = uuid + 1 + Len(pipelines[pipeline_id].steps)
    /\ UNCHANGED heap
    /\ ManagerCall(uuid + 1, "duplicate_pipeline")

\* pipeline.remove_step(step_id)
remove_step(pipeline_id, step_id) ==
    /\ pipeline_id \in DOMAIN pipelines
    /\ pipelines' = [pipelines EXCEPT ![pipeline_id] =
                        RemoveStepResult(@, step_id, clock)]
    /\ UNCHANGED <<heap, uuid>>
    /\ ManagerCall(pipeline_id, "remove_step")

\* pipeline.reorder_steps(step_ids)
reorder_steps(pipeline_id, step_ids) ==
    /\ pipeline_id \in DOMAIN pipelines
    /\ pipelines' = [pipelines EXCEPT ![pipeline_id] =
                        ReorderStepsResult(@, step_ids, clock)]
    /\ UNCHANGED <<heap, uuid>>
    /\ ManagerCall(pipeline_id, "reorder_steps")

\* pipeline.steps[j].parameters['columns'] = ['B']: the key is bound to a
\* new list object
SetParameter(pipeline_id, j) ==
    /\ pipeline_id \in DOMAIN pipelines
    /\ j \in 1..Len(pipelines[pipeline_id].steps)
    /\ Len(heap) < MaxHeap
    /\ heap' = Append(heap, <<ColB>>)
    /\ pipelines' = [pipelines EXCEPT ![pipeline_id].steps[j].parameters.columns =
                        ListRef(Len(heap) + 1)]
    /\ UNCHANGED uuid
    /\ ManagerCall(pipeline_id, "set_parameter")

\* pipeline.steps[j].parameters['columns'].append(label): the list object
\* itself changes
AppendNested(pipeline_id, j, label) ==
    /\ pipeline_id \in DOMAIN pipelines
    /\ j \in 1..Len(pipelines[pipeline_id].steps)
    /\ LET a == pipelines[pipeline_id].steps[j].parameters.columns.addr
       IN  /\ Len(heap[a]) < MaxListLen
           /\ heap' = [heap EXCEPT ![a] = Append(@, label)]
    /\ UNCHANGED <<pipelines, uuid>>
    /\ ManagerCall(pipeline_id, "append_nested")

ManagerNext ==
    \/ create_pipeline("Basic Data Cleaning", "")
    \/ \E q \in DOMAIN pipelines : ManagerAddStep(q)
    \/ \E q \in DOMAIN pipelines : duplicate_pipeline(q, "Copy")
    \/ \E q \in DOMAIN pipelines, sid \in 1..MaxUuid : remove_step(q, sid)
    \/ \E q \in DOMAIN pipelines : \E o \in Orders(pipelines[q]) : reorder_steps(q, o)
    \/ \E q \in DOMAIN pipelines, j \in 1..MaxManagerSteps : SetParameter(q, j)
    \/ \E q \in DOMAIN pipelines, j \in 1..MaxManagerSteps :
          AppendNested(q, j, ColB)

(***************************************************************************)
(* The operation library called with a dataset by value                    *)
(* (operations/imputation.py, cleaning.py, encoding.py)                    *)
(***************************************************************************)
\* what a library call leaves behind: the value it returns, or the exception
Returns(v) == [raised |-> FALSE, exc |-> "", error |-> "", value |-> v]
Raises(exc, error) == [raised |-> TRUE, exc |-> exc, error |-> error, value |-> None]

\* the method names of impute_column that are computed here; the others it
\* knows (Median, Forward Fill, Backward Fill, KNN Imputation (ML),
\* Interpolate) are not among the inputs
MethodMean == PyStr(<<"Mean">>)
MethodMode == PyStr(<<"Mode">>)
MethodConstant == PyStr(<<"Constant Value">>)
\* a method name no branch tests for
MethodUnknown == PyStr(<<"mean">>)
MethodIqr == PyStr(<<"iqr">>)
MethodZscore == PyStr(<<"zscore">>)
MethodForest == PyStr(<<"isolation_forest">>)

\* the rows of a column that hold a value
Present(d, c) == {r \in 1..Len(d.rows) : ~IsNull(Column(d, c)[r])}

RECURSIVE SumRows(_, _)
SumRows(series, rs) ==
    IF rs = {} THEN 0
    ELSE LET r == CHOOSE q \in rs : TRUE
         IN  series[r].n + SumRows(series, rs \ {r})

\* Series.mean(): nan without values, else the quotient (kept exact: an
\* integer when it is one, a symbolic fraction otherwise)
Mean(d, c) ==
    LET rs == Present(d, c)
        total == SumRows(Column(d, c), rs)
        count == Cardinality(rs)
    IN  IF count = 0 THEN NaN
        ELSE IF total % count = 0 THEN PyInt(total \div count)
        ELSE PyFloat(total, <<"/">> \o IntText(count))

\* Series.mode()[0]: the most frequent value, the least of them on a tie
Mode(d, c) ==
    LET series == Column(d, c)
        count(v) == Cardinality({r \in Present(d, c) : series[r] = v})
        modes == {v \in NonNull(d, c) : \A w \in NonNull(d, c) : count(w) <= count(v)}
    IN  CHOOSE v \in modes : \A w \in modes \ {v} : Less(v, w)

\* df[column] = df[column].fillna(value)
FillNa(d, column, value) ==
    LET series == Column(d, column)
    IN  SetColumn(d, column,
                  [r \in 1..Len(d.rows) |->
                      IF IsNull(series[r]) /\ ~IsNull(value) THEN value ELSE series[r]],
                  DType(d, column))

\* impute_column(df, column, method, **kwargs) on imputed_df = df.copy();
\* a method name that no branch tests for falls through to the return
impute_column(d, column, method, kwargs) ==
    IF method \notin {MethodMean, MethodMode, MethodConstant} THEN Returns(d)
    ELSE IF ~HasColumn(d, column) THEN Raises("KeyError", "column")
    ELSE IF method = MethodMean
    THEN IF \E v \in NonNull(d, column) : v.k = "str"
         THEN Raises("TypeError", "Could not convert string to numeric")
         ELSE Returns(FillNa(d, column, Mean(d, column)))
    ELSE IF method = MethodMode
    THEN IF NonNull(d, column) = {} THEN Returns(d)
         ELSE Returns(FillNa(d, column, Mode(d, column)))
    ELSE Returns(FillNa(d, column, Get(kwargs.value, PyInt(0))))

\* the values of a column in ascending order
SortedValues(d, c) ==
    LET rs == Present(d, c)
        v == Column(d, c)
        rank(r) == 1 + Cardinality({q \in rs : \/ v[q].n < v[r].n
                                               \/ v[q].n = v[r].n /\ q < r})
    IN  [j \in 1..Cardinality(rs) |-> v[CHOOSE r \in rs : rank(r) = j].n]

\* 4 * Series.quantile(p / 4) of the sorted values x (linear interpolation)
Quantile4(x, p) ==
    LET h == p * (Len(x) - 1)
        f == h \div 4
        r == h % 4
    IN  IF r = 0 THEN 4 * x[f + 1] ELSE (4 - r) * x[f + 1] + r * x[f + 2]

\* (df[column] < Q1 - threshold * IQR) | (df[column] > Q3 + threshold * IQR),
\* as the set of rows flagged; every quantity is scaled by 8 to stay integral
IqrOutliers(d, column, threshold2) ==
    LET x == SortedValues(d, column)
        q1 == Quantile4(x, 1)
        q3 == Quantile4(x, 3)
        lower == 2 * q1 - threshold2 * (q3 - q1)
        upper == 2 * q3 + threshold2 * (q3 - q1)
        series == Column(d, column)
    IN  IF x = <<>> THEN {}
        ELSE {r \in Present(d, column) :
                 8 * series[r].n < lower \/ 8 * series[r].n > upper}

\* detect_outliers(df, column, method, **kwargs); the z-scores and the
\* isolation forest are not computed: the rows they flag are an input
detect_outliers(d, column, method, kwargs, flagged) ==
    IF method \notin {MethodIqr, MethodZscore, MethodForest}
    THEN Raises("ValueError", "Unknown outlier detection method")
    ELSE IF ~HasColumn(d, column) THEN Raises("KeyError", "column")
    ELSE IF \E v \in NonNull(d, column) : v.k = "str"
    THEN Raises("TypeError", "unsupported operand type(s)")
    ELSE IF method = MethodIqr
    THEN Returns(IqrOutliers(d, column,
                             IF kwargs.threshold = Absent THEN 3
                             ELSE 2 * kwargs.threshold.n))
    ELSE Returns(flagged \cap Present(d, column))

\* str.lower() and str.upper() of one piece of text
LowerPiece(piece) ==
    CASE piece = "A" -> "a" [] piece = "B" -> "b" [] piece = "X" -> "x"
      [] piece = "True" -> "true" [] piece = "False" -> "false"
      [] OTHER -> piece
UpperPiece(piece) ==
    CASE piece = "a" -> "A" [] piece = "b" -> "B" [] piece = "x" -> "X"
      [] piece = "True" -> "TRUE" [] piece = "False" -> "FALSE"
      [] piece = "date" -> "DATE" [] piece = "anomaly_label" -> "ANOMALY_LABEL"
      [] piece = "anomaly_score" -> "ANOMALY_SCORE"
      [] OTHER -> piece

\* Series.str.<method>() of one cell: a missing or non-text cell gives nan
StrStrip(v) == IF v.k = "str" THEN PyStr(Strip(v.t)) ELSE IF IsNull(v) THEN v ELSE NaN
StrLower(v) ==
    IF v.k = "str" THEN PyStr([j \in 1..Len(v.t) |-> LowerPiece(v.t[j])])
    ELSE IF IsNull(v) THEN v ELSE NaN
StrUpper(v) ==
    IF v.k = "str" THEN PyStr([j \in 1..Len(v.t) |-> UpperPiece(v.t[j])])
    ELSE IF IsNull(v) THEN v ELSE NaN
StrCollapse(v) ==
    IF v.k = "str" THEN PyStr(CollapseSpaces(v.t)) ELSE IF IsNull(v) THEN v ELSE NaN

\* Series.str.replace(r'[^a-zA-Z0-9\s]', '') and .str.replace(r'\d+', '') of
\* one piece of text
RemoveSpecialPiece(piece) ==
    CASE piece \in {".", "_"} -> <<>>
      [] piece = "2020-01-01" -> <<"2", "0", "2", "0", "0", "1", "0", "1">>
      [] piece = "anomaly_label" -> <<"anomalylabel">>
      [] piece = "anomaly_score" -> <<"anomalyscore">>
      [] OTHER -> <<piece>>
RemoveNumbersPiece(piece) ==
    CASE piece \in Range(Digits) -> <<>>
      [] piece = "2020-01-01" -> <<"-", "-">>
      [] OTHER -> <<piece>>

RECURSIVE RemoveSpecial(_)
RemoveSpecial(x) ==
    IF x = <<>> THEN <<>> ELSE RemoveSpecialPiece(Head(x)) \o RemoveSpecial(Tail(x))
RECURSIVE RemoveNumbers(_)
RemoveNumbers(x) ==
    IF x = <<>> THEN <<>> ELSE RemoveNumbersPiece(Head(x)) \o RemoveNumbers(Tail(x))

\* one Series.str method applied to one cell
StrApply(fn, v) ==
    CASE fn = "strip" -> StrStrip(v)
      [] fn = "lower" -> StrLower(v)
      [] fn = "upper" -> StrUpper(v)
      [] fn = "collapse" -> StrCollapse(v)
      [] fn = "special" ->
             IF v.k = "str" THEN PyStr(RemoveSpecial(v.t))
             ELSE IF IsNull(v) THEN v ELSE NaN
      [] fn = "numbers" ->
             IF v.k = "str" THEN PyStr(RemoveNumbers(v.t))
             ELSE IF IsNull(v) THEN v ELSE NaN

\* df[col] = df[col].str.<fn>(): one column assigned in place
StrColumn(d, c, fn) ==
    SetColumn(d, c, [r \in 1..Len(d.rows) |-> StrApply(fn, Column(d, c)[r])],
              "object")

\* the Series.str accessor refuses a column that is not of dtype object, and an
\* object column whose values are all of one non-text kind
StrRaises(d, c) == DType(d, c) # "object" \/ StrAccessorRaises(d, c)

\* the checkboxes of clean_text_columns in the order the loop body tests them
TextOperations == <<"collapse", "lower", "special", "numbers", "strip">>

\* the body of the loop of clean_text_columns for one column: the operations
\* ticked, one assignment after the other.  [df, raised]
RECURSIVE CleanOneColumn(_, _, _, _)
CleanOneColumn(d, c, ticked, j) ==
    IF j > Len(TextOperations) THEN [df |-> d, raised |-> FALSE, exc |-> ""]
    ELSE IF TextOperations[j] \notin ticked THEN CleanOneColumn(d, c, ticked, j + 1)
    ELSE IF ~HasColumn(d, c) THEN [df |-> d, raised |-> TRUE, exc |-> "KeyError"]
    ELSE IF StrRaises(d, c) THEN [df |-> d, raised |-> TRUE, exc |-> "AttributeError"]
    ELSE CleanOneColumn(StrColumn(d, c, TextOperations[j]), c, ticked, j + 1)

\* for col in columns: ...  [df, raised]: df is what cleaned_df holds when the
\* loop ends or is left by an exception
RECURSIVE CleanColumnsLoop(_, _, _)
CleanColumnsLoop(d, columns, ticked) ==
    IF columns = <<>> THEN [df |-> d, raised |-> FALSE, exc |-> ""]
    ELSE LET one == CleanOneColumn(d, Head(columns), ticked, 1)
         IN  IF one.raised THEN one
             ELSE CleanColumnsLoop(one.df, Tail(columns), ticked)

\* clean_text_columns(df, columns, operations) on cleaned_df = df.copy()
clean_text_columns(d, columns, ticked) ==
    LET loop == CleanColumnsLoop(d, columns, ticked)
    IN  IF loop.raised
        THEN Raises(loop.exc,
                    IF loop.exc = "KeyError" THEN "column"
                    ELSE "Can only use .str accessor with string values!")
        ELSE Returns(loop.df)

\* ordinal_encode(df, column, mapping): mapping.get(x, x) on every cell, the
\* mapping holding one key
ordinal_encode(d, column, mapping) ==
    IF ~HasColumn(d, column) THEN Raises("KeyError", "column")
    ELSE Returns(SetColumn(d, column,
                           [r \in 1..Len(d.rows) |->
                               IF Column(d, column)[r] = mapping.key
                               THEN mapping.value ELSE Column(d, column)[r]],
                           DType(d, column)))

(***************************************************************************)
(* BatchProcessor (operations/batch_processor.py)                          *)
(***************************************************************************)
MaxFiles == 2
MaxTemplateSteps == 2

\* the parameters dict of a template step: the keys of a pipeline step and
\* the keys only the template operations read
NoBatchParams ==
    [column |-> Absent, columns |-> NoColumns, method |-> Absent,
     type |-> Absent, drop_first |-> Absent, contamination |-> Absent,
     condition |-> NoCondition, transformation |-> Absent,
     threshold |-> Absent, value |-> Absent, dtype |-> Absent,
     mapping |-> Absent]

\* CleaningTemplate.add_step: the step dict (the timestamp is never read)
TemplateStep(operation, parameters) ==
    [operation |-> operation, parameters |-> parameters]

\* what one pass through the body of the try statement of apply_template
\* leaves behind: cleaned_df as bound at that point, the entries appended to
\* operations_log, and the exception if one was raised
BatchDone(d, entries) == [raised |-> FALSE, df |-> d, entries |-> entries, error |-> ""]
BatchRaise(d, error) == [raised |-> TRUE, df |-> d, entries |-> <<>>, error |-> error]
Message(fmt, num, v) == [fmt |-> fmt, n |-> num, v |-> v, error |-> ""]

\* ', '.join(columns) raises on an item that is no str
JoinRaises(labels) == \E j \in 1..Len(labels) : labels[j].k # "str"

\* params.get('columns', []) as the sequence a for loop or a join iterates:
\* the items of a list, the characters of a str
Iterated(columns) ==
    IF columns.k = "label"
    THEN [j \in 1..Len(columns.items[1].t) |-> PyStr(<<columns.items[1].t[j]>>)]
    ELSE columns.items
NotIterable(columns) ==
    columns.k = "none" \/ (columns.k = "label" /\ columns.items[1].k # "str")

BatchRemoveDuplicates(d) ==
    LET after == drop_duplicates(d)
    IN  BatchDone(after, <<Message("Removed duplicate rows",
                                   Len(d.rows) - Len(after.rows), None)>>)

\* cleaned_df = cleaned_df.drop(columns=columns, errors='ignore'), then the
\* log message joins the labels
BatchDropColumns(d, params) ==
    LET columns == params.columns
        dropped == DropColumns(d, Range(columns.items))
    IN  IF columns.k = "none"
        THEN BatchRaise(d, "Need to specify at least one of 'labels', 'index' or 'columns'")
        ELSE IF NotIterable(columns)
        THEN BatchRaise(dropped, "can only join an iterable")
        ELSE IF JoinRaises(Iterated(columns))
        THEN BatchRaise(dropped, "sequence item 0: expected str instance, int found")
        ELSE BatchDone(dropped, <<Message("Dropped columns", 0, columns)>>)

\* missing_pct > threshold, the threshold in percent and the quotient being
\* nan on a frame without rows
HighMissing(d, percent) ==
    {c \in Range(d.columns) :
        Len(d.rows) > 0 /\ NullCount(d, c) * 100 > percent * Len(d.rows)}

BatchDropHighMissing(d, params) ==
    LET threshold == Get(params.threshold, PyInt(50)).n
        cols_to_drop == HighMissing(d, threshold)
    IN  IF cols_to_drop # {}
        THEN BatchDone(DropColumns(d, cols_to_drop),
                       <<Message("Dropped columns with missing values",
                                 Cardinality(cols_to_drop), None)>>)
        ELSE BatchDone(d, <<>>)

\* imputer.impute_column(cleaned_df, column, method)
BatchImpute(d, params) ==
    LET column == Get(params.column, None)
        method == Get(params.method, MethodMean)
        r == impute_column(d, column, method, [value |-> Absent])
    IN  IF ~ColumnGuard(d, column) THEN BatchDone(d, <<>>)
        ELSE IF r.raised THEN BatchRaise(d, r.error)
        ELSE BatchDone(r.value, <<Message("Imputed", 0, column)>>)

\* cleaned_df.fillna(value)
FillAll(d, value) ==
    [d EXCEPT !.rows = [r \in 1..Len(d.rows) |->
                          [j \in 1..Len(d.columns) |->
                              IF IsNull(d.rows[r][j]) THEN value ELSE d.rows[r][j]]]]

BatchFillNa(d, params) ==
    LET value == Get(params.value, PyInt(0))
    IN  IF value = None
        THEN BatchRaise(d, "Must specify a fill 'value' or 'method'.")
        ELSE BatchDone(FillAll(d, value), <<Message("Filled missing values", 0, value)>>)

\* for col in cols: cleaned_df[col] = cleaned_df[col].str.<fn>(), a column
\* being skipped unless it exists with dtype object.  [df, raised]
RECURSIVE StrLoop(_, _, _)
StrLoop(d, cols, fn) ==
    IF cols = <<>> THEN [df |-> d, raised |-> FALSE]
    ELSE IF ~HasColumn(d, Head(cols)) \/ DType(d, Head(cols)) # "object"
    THEN StrLoop(d, Tail(cols), fn)
    ELSE IF StrAccessorRaises(d, Head(cols)) THEN [df |-> d, raised |-> TRUE]
    ELSE StrLoop(StrColumn(d, Head(cols), fn), Tail(cols), fn)

\* the loop runs on cleaned_df itself: the columns assigned before the one
\* that raises stay assigned
BatchStripWhitespace(d) ==
    LET text_cols == SelectAt(d.columns, TextCols(d), 1)
        loop == StrLoop(d, text_cols, "strip")
    IN  IF loop.raised
        THEN BatchRaise(loop.df, "Can only use .str accessor with string values!")
        ELSE BatchDone(loop.df, <<Message("Stripped whitespace from text columns",
                                          Len(text_cols), None)>>)

BatchChangeCase(d, params, fn) ==
    LET columns == params.columns
        loop == StrLoop(d, Iterated(columns), fn)
    IN  IF NotIterable(columns)
        THEN BatchRaise(d, "object is not iterable")
        ELSE IF loop.raised
        THEN BatchRaise(loop.df, "Can only use .str accessor with string values!")
        ELSE IF JoinRaises(Iterated(columns))
        THEN BatchRaise(loop.df, "sequence item 0: expected str instance, int found")
        ELSE BatchDone(loop.df, <<Message("Converted case", 0, columns)>>)

BatchLabelEncode(d, params) ==
    LET column == Get(params.column, None)
    IN  IF ColumnGuard(d, column)
        THEN BatchDone(label_encode(d, column), <<Message("Label encoded", 0, column)>>)
        ELSE BatchDone(d, <<>>)

\* pd.get_dummies(df, columns=columns, ...): the columns one after the other
RECURSIVE OnehotAll(_, _, _)
OnehotAll(d, columns, drop_first) ==
    IF columns = <<>> THEN d
    ELSE OnehotAll(onehot_encode(d, Head(columns), drop_first), Tail(columns),
                   drop_first)

BatchOnehotEncode(d, params) ==
    LET listed == params.columns
        columns == SelectAt(Iterated(listed),
                            {j \in 1..Len(Iterated(listed)) :
                                HasColumn(d, Iterated(listed)[j])}, 1)
        drop_first == Truthy(Get(params.drop_first, PyBool(TRUE)))
        encoded == OnehotAll(d, columns, drop_first)
    IN  IF NotIterable(listed) THEN BatchRaise(d, "object is not iterable")
        ELSE IF columns = <<>> THEN BatchDone(d, <<>>)
        ELSE IF JoinRaises(columns)
        THEN BatchRaise(encoded, "sequence item 0: expected str instance, int found")
        ELSE BatchDone(encoded, <<Message("One-hot encoded", 0, listed)>>)

\* detect_outliers(cleaned_df, column, method=method, **params): params holds
\* the key 'column', which the call also passes by position
BatchRemoveOutliers(d, params) ==
    LET column == Get(params.column, None)
    IN  IF ColumnGuard(d, column)
        THEN BatchRaise(d, "detect_outliers() got multiple values for argument 'column'")
        ELSE BatchDone(d, <<>>)

\* Series.astype(dtype): int64 refuses text and missing values
AsTypeRaises(d, c, dtype) ==
    \/ /\ dtype \in {"int64", "float64"}
       /\ \E v \in Range(Column(d, c)) : v.k = "str"
    \/ /\ dtype = "int64"
       /\ \E v \in Range(Column(d, c)) : IsNull(v)

BatchConvertDtype(d, params) ==
    LET column == Get(params.column, None)
        dtype == Get(params.dtype, None)
    IN  IF ColumnGuard(d, column) /\ Truthy(dtype)
        THEN IF AsTypeRaises(d, column, dtype.t[1])
             THEN BatchRaise(d, "invalid literal for int()")
             ELSE BatchDone(SetColumn(d, column, Column(d, column), dtype.t[1]),
                            <<Message("Converted", 0, column)>>)
        ELSE BatchDone(d, <<>>)

\* cleaned_df.rename(columns=mapping), the mapping holding at most one key
BatchRenameColumns(d, params) ==
    LET mapping == params.mapping
    IN  IF mapping = Absent THEN BatchDone(d, <<Message("Renamed columns", 0, None)>>)
        ELSE BatchDone([d EXCEPT !.columns =
                            [j \in 1..Len(d.columns) |->
                                IF d.columns[j] = mapping.key THEN mapping.value
                                ELSE d.columns[j]]],
                       <<Message("Renamed columns", 0, mapping.key)>>)

BatchAutoClean(d) ==
    LET r == auto_clean(d)
    IN  IF r.raised THEN BatchRaise(d, r.error)
        ELSE BatchDone(r.df, [j \in 1..Len(r.operations) |->
                                 Message(r.operations[j], 0, None)])

\* the if/elif chain of apply_template; a name no branch tests for ends
\* the body without an entry
ApplyStep(step, d) ==
    LET operation == step.operation
        params == step.parameters
    IN  CASE operation = "remove_duplicates" -> BatchRemoveDuplicates(d)
          [] operation = "drop_columns" -> BatchDropColumns(d, params)
          [] operation = "drop_high_missing" -> BatchDropHighMissing(d, params)
          [] operation = "impute" -> BatchImpute(d, params)
          [] operation = "fill_na" -> BatchFillNa(d, params)
          [] operation = "strip_whitespace" -> BatchStripWhitespace(d)
          [] operation = "lowercase" -> BatchChangeCase(d, params, "lower")
          [] operation = "uppercase" -> BatchChangeCase(d, params, "upper")
          [] operation = "label_encode" -> BatchLabelEncode(d, params)
          [] operation = "onehot_encode" -> BatchOnehotEncode(d, params)
          [] operation = "remove_outliers" -> BatchRemoveOutliers(d, params)
          [] operation = "convert_dtype" -> BatchConvertDtype(d, params)
          [] operation = "rename_columns" -> BatchRenameColumns(d, params)
          [] operation = "auto_clean" -> BatchAutoClean(d)
          [] OTHER -> BatchDone(d, <<>>)

\* except Exception as e: operations_log.append(f"Error in {operation}: ...")
BatchErrorEntry(step, r) == [fmt |-> "Error in", n |-> 0, v |-> PyStr(<<step.operation>>),
                             error |-> r.error]

\* a file object: an upload with a name and the outcome of reading it, or a
\* value without a name attribute (a path given as a str)
UploadedFile(name, content) == [has_name |-> TRUE, name |-> name, content |-> content]
PathString(text) == [has_name |-> FALSE, name |-> PyStr(text), content |-> None]

\* filename.endswith(...) of the branches that read the file
ReadableExtensions == {".csv", ".xlsx", ".xls", ".json", ".parquet"}

\* the result dict as process_files creates it
PendingResult(file_obj) ==
    [filename |-> file_obj.name, status |-> "pending", operations |-> <<>>,
     errors |-> <<>>, rows_before |-> Absent, columns_before |-> Absent,
     rows_after |-> Absent, columns_after |-> Absent, processed_data |-> Absent]

ErrorResult(res, message) ==
    [res EXCEPT !.status = "error", !.errors = Append(res.errors, message)]

\* the load part of the try statement: [status, df, result]; status is
\* "continue" (the result was appended and the loop went on), "raised" (the
\* except clause marked the result) or "loaded"
LoadFile(file_obj) ==
    LET res == PendingResult(file_obj)
    IN  IF ~file_obj.has_name
        THEN [status |-> "continue", df |-> None,
              result |-> ErrorResult(res, "Invalid file object")]
        ELSE IF file_obj.name.k # "str"
        THEN [status |-> "raised", df |-> None,
              result |-> ErrorResult(res, "'int' object has no attribute 'endswith'")]
        ELSE IF Last(file_obj.name.t) \notin ReadableExtensions
        THEN [status |-> "continue", df |-> None,
              result |-> ErrorResult(res, "Unsupported file format")]
        ELSE IF file_obj.content.raised
        THEN [status |-> "raised", df |-> None,
              result |-> ErrorResult(res, file_obj.content.error)]
        ELSE [status |-> "loaded", df |-> file_obj.content.value,
              result |-> [res EXCEPT !.rows_before = PyInt(Len(file_obj.content.value.rows)),
                                     !.columns_before =
                                         PyInt(Len(file_obj.content.value.columns))]]

\* the end of the try statement: the counts after, the data, the status
SuccessResult(res, d, operations) ==
    [res EXCEPT !.operations = operations,
                !.rows_after = PyInt(Len(d.rows)),
                !.columns_after = PyInt(Len(d.columns)),
                !.processed_data = d,
                !.status = "success"]

\* results.append(result), also on the two paths that leave by continue
AppendSkippingErrors(rs, res) == IF res.status = "error" THEN rs ELSE Append(rs, res)
AppendResult(rs, res) == Append(rs, res)

\* a text column with surrounding whitespace and a column of flags with a
\* missing value, which pandas reads as dtype object
DF_flag == DataFrame(<<ColB, ColX>>, <<"object", "object">>,
                     <<<<Txt_sp_a, PyBool(TRUE)>>, <<PyStr(<<"B">>), NaN>>>>)

BatchFiles ==
    {UploadedFile(PyStr(<<"flags", ".csv">>), Returns(DF_flag)),
     UploadedFile(PyStr(<<"missing", ".json">>), Returns(DF_nan)),
     UploadedFile(PyStr(<<"headerless", ".csv">>), Returns(DF_int)),
     UploadedFile(PyStr(<<"empty", ".csv">>),
                  Raises("EmptyDataError", "No columns to parse from file")),
     UploadedFile(PyStr(<<"notes", ".txt">>), None),
     UploadedFile(PyInt(3), Returns(DF_dup)),
     PathString(<<"data", ".csv">>)}

BatchStepInputs ==
    {TemplateStep("remove_duplicates", NoBatchParams),
     TemplateStep("drop_columns", [NoBatchParams EXCEPT !.columns = ColumnList(<<ColA>>)]),
     TemplateStep("drop_columns", [NoBatchParams EXCEPT !.columns = ColumnList(<<Col1>>)]),
     TemplateStep("drop_high_missing", [NoBatchParams EXCEPT !.threshold = PyInt(40)]),
     TemplateStep("impute", [NoBatchParams EXCEPT !.column = ColA]),
     TemplateStep("fill_na", NoBatchParams),
     TemplateStep("strip_whitespace", NoBatchParams),
     TemplateStep("lowercase", [NoBatchParams EXCEPT !.columns = ColumnList(<<ColB, ColX>>)]),
     TemplateStep("uppercase", [NoBatchParams EXCEPT !.columns = ColumnList(<<ColB>>)]),
     TemplateStep("label_encode", [NoBatchParams EXCEPT !.column = ColB]),
     TemplateStep("onehot_encode", [NoBatchParams EXCEPT !.columns = ColumnList(<<ColB>>)]),
     TemplateStep("remove_outliers", [NoBatchParams EXCEPT !.column = ColA]),
     TemplateStep("convert_dtype", [NoBatchParams EXCEPT !.column = ColB,
                                                         !.dtype = PyStr(<<"int64">>)]),
     TemplateStep("rename_columns",
                  [NoBatchParams EXCEPT !.mapping = [key |-> ColB, value |-> ColX]]),
     TemplateStep("auto_clean", NoBatchParams),
     TemplateStep("normalize", NoBatchParams)}

\* the sequences without repetition of at most n elements of S
RECURSIVE Arrangements(_, _)
Arrangements(S, n) ==
    IF n = 0 THEN {<<>>}
    ELSE LET shorter == Arrangements(S, n - 1)
         IN  shorter \cup UNION {{Append(q, x) : x \in S \ Range(q)} : q \in shorter}

CleaningTemplate(template_steps) == [k |-> "template", steps |-> template_steps]
Templates ==
    {None} \cup {CleaningTemplate(q) : q \in Arrangements(BatchStepInputs, MaxTemplateSteps)}

BatchInit ==
    /\ files = <<>>
    /\ template = None
    /\ results = <<>>
    /\ batch_results = <<>>
    /\ fidx = 0
    /\ bpc = "idle"
    /\ file_result = None
    /\ cleaned_df = None
    /\ operations_log = <<>>
    /\ tidx = 0
    /\ step_before = None
    /\ step_failed = FALSE

\* BatchProcessor.process_files(files, template): results = []
process_files(fs, t) ==
    /\ bpc = "idle"
    /\ files' = fs
    /\ template' = t
    /\ results' = <<>>
    /\ fidx' = 0
    /\ bpc' = "files"
    /\ UNCHANGED <<batch_results, file_result, cleaned_df, operations_log, tidx,
                   step_before, step_failed>>
    /\ UNCHANGED <<trackerVars, pipelineVars, runVars, managerVars, libraryVars,
                   sessionVars, laterVars>>

\* one pass of  for file_obj in files  up to the call of apply_template, or
\* to the end of the body when no template is applied
ProcessFile ==
    /\ bpc = "files"
    /\ fidx < Len(files)
    /\ LET loaded_file == LoadFile(files[fidx + 1])
       IN  IF loaded_file.status = "loaded" /\ template # None
           THEN /\ file_result' = loaded_file.result
                /\ cleaned_df' = loaded_file.df
                /\ operations_log' = <<>>
                /\ tidx' = 0
                /\ bpc' = "template"
                /\ UNCHANGED <<results, fidx>>
           ELSE /\ results' =
                       AppendResult(results,
                                    IF loaded_file.status = "loaded"
                                    THEN SuccessResult(loaded_file.result,
                                                       loaded_file.df, <<>>)
                                    ELSE loaded_file.result)
                /\ fidx' = fidx + 1
                /\ UNCHANGED <<file_result, cleaned_df, operations_log, tidx, bpc>>
    /\ step_before' = None
    /\ step_failed' = FALSE
    /\ UNCHANGED <<files, template, batch_results>>
    /\ UNCHANGED <<trackerVars, pipelineVars, runVars, managerVars, libraryVars,
                   sessionVars, laterVars>>

\* one pass of  for step in template.steps  of apply_template
ApplyTemplateStep ==
    /\ bpc = "template"
    /\ tidx < Len(template.steps)
    /\ LET step == template.steps[tidx + 1]
           r == ApplyStep(step, cleaned_df)
       IN  /\ cleaned_df' = r.df
           /\ operations_log' =
                  IF r.raised THEN Append(operations_log, BatchErrorEntry(step, r))
                  ELSE operations_log \o r.entries
           /\ step_failed' = r.raised
    /\ step_before' = cleaned_df
    /\ tidx' = tidx + 1
    /\ UNCHANGED <<files, template, results, batch_results, fidx, bpc, file_result>>
    /\ UNCHANGED <<trackerVars, pipelineVars, runVars, managerVars, libraryVars,
                   sessionVars, laterVars>>

\* return cleaned_df, operations_log  and the rest of the body of the loop
\* of process_files
ApplyTemplateReturn ==
    /\ bpc = "template"
    /\ tidx = Len(template.steps)
    /\ results' = AppendResult(results,
                               SuccessResult(file_result, cleaned_df, operations_log))
    /\ fidx' = fidx + 1
    /\ bpc' = "files"
    /\ step_before' = None
    /\ step_failed' = FALSE
    /\ UNCHANGED <<files, template, batch_results, file_result, cleaned_df,
                   operations_log, tidx>>
    /\ UNCHANGED <<trackerVars, pipelineVars, runVars, managerVars, libraryVars,
                   sessionVars, laterVars>>

\* self.batch_results = results; return results
ProcessFilesReturn ==
    /\ bpc = "files"
    /\ fidx = Len(files)
    /\ batch_results' = results
    /\ bpc' = "returned"
    /\ UNCHANGED <<files, template, results, fidx, file_result, cleaned_df,
                   operations_log, tidx, step_before, step_failed>>
    /\ UNCHANGED <<trackerVars, pipelineVars, runVars, managerVars, libraryVars,
                   sessionVars, laterVars>>

\* a caller hands a list of distinct files and a template, or no template
ProcessFilesCall ==
    /\ bpc = "idle"
    /\ \E fs \in Arrangements(BatchFiles, MaxFiles), t \in Templates :
           process_files(fs, t)

BatchNext ==
    \/ ProcessFilesCall
    \/ ProcessFile
    \/ ApplyTemplateStep
    \/ ApplyTemplateReturn
    \/ ProcessFilesReturn

(***************************************************************************)
(* The operation library called directly on a caller's dataset             *)
(***************************************************************************)
MaxCalls == 3

\* df.copy(): a new object that holds the value of the object at address a
DfAlias(h, a) == [frames |-> h, addr |-> a]
DfCopy(h, a) == [frames |-> Append(h, h[a]), addr |-> Len(h) + 1]

\* what the body of a library function does after its df.copy(): local is the
\* value the copied object holds when the function is left (its in-place
\* column assignments), rebound tells that the function returns another
\* object than the copy, value is what it returns
Effect(r, local, rebound) ==
    [raised |-> r.raised, exc |-> r.exc, error |-> r.error, value |-> r.value,
     local |-> local, rebound |-> rebound, copies |-> TRUE]
\* a function that only reads the dataset
ReadOnly(r) ==
    [raised |-> r.raised, exc |-> r.exc, error |-> r.error, value |-> r.value,
     local |-> None, rebound |-> FALSE, copies |-> FALSE]

\* the heap after the call: the caller's object, the copy, the object returned
HeapAfter(h, a, e) ==
    LET base == DfCopy(h, a)
        written == [base.frames EXCEPT ![base.addr] = e.local]
    IN  IF ~e.copies THEN [frames |-> h, addr |-> 0]
        ELSE IF e.raised THEN [frames |-> written, addr |-> 0]
        ELSE IF e.rebound THEN [frames |-> Append(written, e.value),
                                addr |-> Len(written) + 1]
        ELSE [frames |-> written, addr |-> base.addr]

ImputeEffect(d, column, method) ==
    LET r == impute_column(d, column, method, [value |-> Absent])
    IN  Effect(r, IF r.raised THEN d ELSE r.value, FALSE)

\* encoded_df.loc[mask, column] = le.fit_transform(...)
LabelEncodeEffect(d, column) ==
    Effect(Returns(label_encode(d, column)), label_encode(d, column), FALSE)

\* encoded_df = pd.get_dummies(encoded_df, ...): the copy is left as it was
OnehotEncodeEffect(d, columns, drop_first) ==
    Effect(Returns(OnehotAll(d, columns, drop_first)), d, TRUE)

OrdinalEncodeEffect(d, column, mapping) ==
    LET r == ordinal_encode(d, column, mapping)
    IN  Effect(r, IF r.raised THEN d ELSE r.value, FALSE)

\* the loop assigns on the copy: the columns cleaned before an exception stay
CleanTextEffect(d, columns, ticked) ==
    Effect(clean_text_columns(d, columns, ticked),
           CleanColumnsLoop(d, columns, ticked).df, FALSE)

\* cleaned_df after the two stages of auto_clean that rebind it
AutoCleanRebound(d) ==
    RemoveMissingColumns(RemoveDuplicateRows(AutoCleanOk(d, <<>>))).df

\* the text columns cleaned before the first one that raises
CleanedBeforeRaise(d) ==
    {j \in TextCols(d) :
        \A q \in TextCols(d) : StrAccessorRaises(d, d.columns[q]) => j < q}

\* cleaned_df is rebound by drop_duplicates and by drop; the text and datetime
\* assignments act on the object it is bound to then
AutoCleanObjects(d, r, dropped) ==
    Effect([raised |-> r.raised, exc |-> r.exc, error |-> r.error,
            value |-> IF r.raised THEN None ELSE r.df],
           IF dropped # d THEN d
           ELSE IF r.raised
           THEN NormalizeTextColumns(dropped, CleanedBeforeRaise(dropped))
           ELSE r.df,
           dropped # d)

AutoCleanEffect(d) == AutoCleanObjects(d, auto_clean(d), AutoCleanRebound(d))

\* the objects of a loop that starts with  result_df = df.copy(): cur is the
\* value of the loop variable, obj the value of the copied object, same tells
\* that the variable is still bound to the copied object
ObjectsStart(d) == [cur |-> d, obj |-> d, same |-> TRUE]
ObjectsAfter(acc, after, keeps) ==
    [cur |-> after,
     obj |-> IF acc.same /\ keeps THEN after ELSE acc.obj,
     same |-> acc.same /\ keeps]

\* a step of Pipeline.execute leaves result_df bound to the same object:
\* only transform_column assigns in place, the others rebind on success
ExecuteKeeps(acc, step, r) ==
    ObjectsAfter(acc, r.df,
                 \/ step.operation = "transform_column"
                 \/ r.status = "none"
                 \/ r.status = "error" /\ r.df = acc.cur)

ExecuteObjectsStep(acc, step) == ExecuteKeeps(acc, step, RunStep(step, acc.cur, {}))

RECURSIVE ExecuteObjects(_, _)
ExecuteObjects(ss, d) ==
    IF ss = <<>> THEN ObjectsStart(d)
    ELSE ExecuteObjectsStep(ExecuteObjects(Front(ss), d), Last(ss))

ExecuteObjectsEffect(objects) ==
    Effect(Returns(objects.cur), objects.obj, ~objects.same)

ExecuteEffect(d, ss) == ExecuteObjectsEffect(ExecuteObjects(ss, d))

\* the operations of apply_template that assign columns of cleaned_df in place
AssignsInPlace == {"strip_whitespace", "lowercase", "uppercase", "convert_dtype"}

\* a step of apply_template leaves cleaned_df bound to the same object
TemplateKeeps(acc, step, r) ==
    ObjectsAfter(acc, r.df,
                 \/ step.operation \in AssignsInPlace
                 \/ ~r.raised /\ r.entries = <<>>
                 \/ r.raised /\ r.df = acc.cur)

TemplateObjectsStep(acc, step) == TemplateKeeps(acc, step, ApplyStep(step, acc.cur))

RECURSIVE TemplateObjects(_, _)
TemplateObjects(ss, d) ==
    IF ss = <<>> THEN ObjectsStart(d)
    ELSE TemplateObjectsStep(TemplateObjects(Front(ss), d), Last(ss))

ApplyTemplateEffect(d, ss) == ExecuteObjectsEffect(TemplateObjects(ss, d))

LibraryDatasets == {DF_dup, DF_nan, DF_flag}
ImputeMethods == {MethodMean, MethodMode, MethodConstant, MethodUnknown}
OutlierMethods == {MethodIqr, MethodZscore, PyStr(<<"IQR">>)}
TickedOperations == {{"collapse", "strip"}, {"lower"}}
LibraryPipelines ==
    {<<PipelineStep("step-1", "Square", "transform_column",
                    [NoParams EXCEPT !.column = ColA,
                                     !.transformation = PyStr(<<"square">>)])>>,
     <<PipelineStep("step-1", "Deduplicate", "remove_duplicates", NoParams),
       PipelineStep("step-2", "Square", "transform_column",
                    [NoParams EXCEPT !.column = ColA,
                                     !.transformation = PyStr(<<"square">>)])>>}
LibraryTemplates ==
    {<<TemplateStep("strip_whitespace", NoBatchParams)>>,
     <<TemplateStep("remove_duplicates", NoBatchParams),
       TemplateStep("uppercase", [NoBatchParams EXCEPT !.columns = ColumnList(<<ColB>>)])>>}

LibraryInit ==
    /\ frames = <<>>
    /\ arg = 0
    /\ lib_call = [name |-> "init", method |-> None]
    /\ lib_result = None
    /\ arg_was = None
    /\ calls = 0

\* the caller loads a dataset
LibraryLoad(d) ==
    /\ frames = <<>>
    /\ frames' = <<d>>
    /\ arg' = 1
    /\ arg_was' = d
    /\ lib_call' = [name |-> "load", method |-> None]
    /\ UNCHANGED <<lib_result, calls>>
    /\ UNCHANGED <<trackerVars, pipelineVars, runVars, managerVars, batchVars,
                   sessionVars, laterVars>>

\* a call of a library function on the caller's dataset: what every call does
\* to the heap, e being the effect of the function body
LibraryCall(name, method, e) ==
    /\ calls < MaxCalls
    /\ LET after == HeapAfter(<<frames[arg]>>, 1, e)
       IN  /\ frames' = after.frames
           /\ lib_result' = [raised |-> e.raised, exc |-> e.exc, error |-> e.error,
                             value |-> IF e.copies THEN None ELSE e.value,
                             addr |-> after.addr]
    /\ arg' = 1
    /\ arg_was' = frames[arg]
    /\ lib_call' = [name |-> name, method |-> method]
    /\ calls' = calls + 1
    /\ UNCHANGED <<trackerVars, pipelineVars, runVars, managerVars, batchVars,
                   sessionVars, laterVars>>

CallImputeColumn(method) ==
    /\ frames # <<>>
    /\ HasColumn(frames[arg], ColA)
    /\ LibraryCall("impute_column", method, ImputeEffect(frames[arg], ColA, method))

CallLabelEncode ==
    /\ frames # <<>>
    /\ HasColumn(frames[arg], ColB)
    /\ LibraryCall("label_encode", None, LabelEncodeEffect(frames[arg], ColB))

CallOnehotEncode ==
    /\ frames # <<>>
    /\ HasColumn(frames[arg], ColB)
    /\ LibraryCall("onehot_encode", None,
                   OnehotEncodeEffect(frames[arg], <<ColB>>, TRUE))

CallOrdinalEncode ==
    /\ frames # <<>>
    /\ LibraryCall("ordinal_encode", None,
                   OrdinalEncodeEffect(frames[arg], ColB,
                                       [key |-> Txt_b, value |-> PyInt(1)]))

CallAutoClean ==
    /\ frames # <<>>
    /\ LibraryCall("auto_clean", None, AutoCleanEffect(frames[arg]))

CallCleanTextColumns(ticked) ==
    /\ frames # <<>>
    /\ LibraryCall("clean_text_columns", None,
                   CleanTextEffect(frames[arg], SelectAt(frames[arg].columns,
                                                         TextCols(frames[arg]), 1),
                                   ticked))

CallDetectOutliers(method, flagged) ==
    /\ frames # <<>>
    /\ LibraryCall("detect_outliers", method,
                   ReadOnly(detect_outliers(frames[arg], ColA, method,
                                            [threshold |-> Absent], flagged)))

CallExecute(ss) ==
    /\ frames # <<>>
    /\ LibraryCall("execute", None, ExecuteEffect(frames[arg], ss))

CallApplyTemplate(ss) ==
    /\ frames # <<>>
    /\ LibraryCall("apply_template", None, ApplyTemplateEffect(frames[arg], ss))

\* the caller binds its dataset to the object the last call returned
Adopt ==
    /\ lib_result # None
    /\ lib_result.addr # 0
    /\ frames' = <<frames[lib_result.addr]>>
    /\ arg' = 1
    /\ arg_was' = frames[lib_result.addr]
    /\ lib_call' = [name |-> "adopt", method |-> None]
    /\ lib_result' = None
    /\ UNCHANGED calls
    /\ UNCHANGED <<trackerVars, pipelineVars, runVars, managerVars, batchVars,
                   sessionVars, laterVars>>

LibraryNext ==
    \/ \E d \in LibraryDatasets : LibraryLoad(d)
    \/ \E method \in ImputeMethods : CallImputeColumn(method)
    \/ CallLabelEncode
    \/ CallOnehotEncode
    \/ CallOrdinalEncode
    \/ CallAutoClean
    \/ \E ticked \in TickedOperations : CallCleanTextColumns(ticked)
    \/ \E method \in OutlierMethods, flagged \in {{}, {1}} :
          CallDetectOutliers(method, flagged)
    \/ \E ss \in LibraryPipelines : CallExecute(ss)
    \/ \E ss \in LibraryTemplates : CallApplyTemplate(ss)
    \/ Adopt

(***************************************************************************)
(* The Data Cleaning page (app.py)                                         *)
(***************************************************************************)
MaxSessionHistory == 2

\* a handler that ran to its end, or was left by an exception after doing
\* what it did: [data, history, failed]
Handled(d, h, hasFailed) == [data |-> d, history |-> h, failed |-> hasFailed]

\* Auto-Clean: the try statement calls cleaner.auto_clean(df) first, records
\* the operation and assigns the result after it
AutoCleanHandler(d, h) ==
    LET r == auto_clean(d)
    IN  IF r.raised THEN Handled(d, h, TRUE)
        ELSE Handled(r.df, AddOperationResult(h, "Auto-Clean", Ref(d, FALSE)), FALSE)

\* Remove Duplicates: add_operation, then df.drop_duplicates()
RemoveDuplicatesHandler(d, h) ==
    Handled(drop_duplicates(d),
            AddOperationResult(h, "Remove Duplicates", Ref(d, FALSE)), FALSE)

\* Text Cleaning: add_operation, then cleaner.clean_text_columns(df, ...),
\* outside any try statement
TextCleaningHandler(d, h, selected_cols, ticked) ==
    LET r == clean_text_columns(d, selected_cols, ticked)
        recorded == AddOperationResult(h, "Text Cleaning", Ref(d, FALSE))
    IN  IF r.raised THEN Handled(d, recorded, TRUE)
        ELSE Handled(r.value, recorded, FALSE)

\* Type Conversion: the Apply button is offered only if the preview of the
\* same conversion did not raise; then add_operation and the column assignment
TypeConversionHandler(d, h, col_to_convert, target_type) ==
    IF AsTypeRaises(d, col_to_convert, target_type)
    THEN Handled(d, h, TRUE)
    ELSE Handled(SetColumn(d, col_to_convert, Column(d, col_to_convert), target_type),
                 AddOperationResult(h, "Type Conversion", Ref(d, FALSE)), FALSE)

SessionDatasets == {DF_dup, DF_flag, DF_int, DF_nan}
SessionTargetTypes == {"int64", "float64", "object"}

SessionInit ==
    /\ session_data = None
    /\ session_history = <<>>
    /\ session_was = [data |-> None, history |-> <<>>]
    /\ handler = "init"
    /\ failed = FALSE

\* what every handler of the page does with the session
Handle(name, done) ==
    /\ session_data # None
    /\ Len(session_history) < MaxSessionHistory
    /\ session_data' = done.data
    /\ session_history' = done.history
    /\ failed' = done.failed
    /\ session_was' = [data |-> session_data, history |-> session_history]
    /\ handler' = name
    /\ UNCHANGED <<trackerVars, pipelineVars, runVars, managerVars, batchVars,
                   libraryVars, laterVars>>

\* Data Upload page: a file is loaded into the session
SessionLoad(d) ==
    /\ session_data = None
    /\ session_data' = d
    /\ session_was' = [data |-> session_data, history |-> session_history]
    /\ handler' = "load"
    /\ UNCHANGED <<session_history, failed>>
    /\ UNCHANGED <<trackerVars, pipelineVars, runVars, managerVars, batchVars,
                   libraryVars, laterVars>>

AutoCleanApply ==
    /\ session_data # None
    /\ Handle("Auto-Clean", AutoCleanHandler(session_data, session_history))

RemoveDuplicatesApply ==
    /\ session_data # None
    /\ DuplicatedCount(session_data) > 0
    /\ Handle("Remove Duplicates",
              RemoveDuplicatesHandler(session_data, session_history))

\* the columns offered are the object columns, the first three preselected
TextCleaningApply(ticked) ==
    /\ session_data # None
    /\ TextCols(session_data) # {}
    /\ Handle("Text Cleaning",
              TextCleaningHandler(session_data, session_history,
                                  SelectAt(session_data.columns,
                                           TextCols(session_data), 1),
                                  ticked))

TypeConversionApply(col_to_convert, target_type) ==
    /\ session_data # None
    /\ HasColumn(session_data, col_to_convert)
    /\ Handle("Type Conversion",
              TypeConversionHandler(session_data, session_history, col_to_convert,
                                    target_type))

\* Undo Last: offered while the history is not empty
UndoLast ==
    /\ session_data # None
    /\ Len(session_history) > 0
    /\ LET u == UndoResult(session_history)
       IN  /\ session_history' = u.history
           /\ session_data' = u.returned.val
    /\ session_was' = [data |-> session_data, history |-> session_history]
    /\ handler' = "Undo Last"
    /\ failed' = FALSE
    /\ UNCHANGED <<trackerVars, pipelineVars, runVars, managerVars, batchVars,
                   libraryVars, laterVars>>

SessionNext ==
    \/ \E d \in SessionDatasets : SessionLoad(d)
    \/ AutoCleanApply
    \/ RemoveDuplicatesApply
    \/ \E ticked \in TickedOperations : TextCleaningApply(ticked)
    \/ \E c \in {ColA, ColB}, t \in SessionTargetTypes : TypeConversionApply(c, t)
    \/ UndoLast

(***************************************************************************)
(* Quality scoring (python_backend/data_quality.py and                     *)
(* utils/quality_assessment.py)                                            *)
(***************************************************************************)
MaxRows == 3

\* a float as the quotient of two integers; a zero denominator is what numpy
\* gives for 0 / 0 (nan), and it is kept by every operation on it
Ratio(n, d) == [num |-> n, den |-> d]
Whole(n) == Ratio(n, 1)
IsNan(x) == x.den = 0
RECURSIVE Gcd(_, _)
Gcd(a, b) == IF b = 0 THEN a ELSE Gcd(b, a % b)
\* the same quotient in lowest terms
LowestBy(n, d, g) == IF d = 0 THEN Ratio(0, 0) ELSE Ratio(n \div g, d \div g)
Lowest(n, d) == LowestBy(n, d, Gcd(IF n < 0 THEN -n ELSE n, d))
Plus(x, y) == Lowest(x.num * y.den + y.num * x.den, x.den * y.den)
Minus(x, y) == Lowest(x.num * y.den - y.num * x.den, x.den * y.den)
Times(x, y) == Lowest(x.num * y.num, x.den * y.den)
\* x / y for a numpy scalar and a divisor >= 0
TrueDivide(x, y) == Lowest(x.num * y.den, x.den * y.num)
\* x <= y and x < y: False when either is nan
AtMost(x, y) == ~IsNan(x) /\ ~IsNan(y) /\ x.num * y.den <= y.num * x.den
Below(x, y) == ~IsNan(x) /\ ~IsNan(y) /\ x.num * y.den < y.num * x.den
\* max(a, x) and min(a, x) of Python: the first argument unless the second
\* compares beyond it
PyMax(a, x) == IF Below(a, x) THEN x ELSE a
PyMin(a, x) == IF Below(x, a) THEN x ELSE a
\* int(x) of a float x >= 0
IntOf(x) == x.num \div x.den

\* len(str(x)) of a text given by its pieces
PieceLen(piece) ==
    CASE piece = "2020-01-01" -> 10
      [] piece \in {"anomaly_label", "anomaly_score"} -> 13
      [] piece = "False" -> 5
      [] piece \in {"True", "date"} -> 4
      [] OTHER -> 1
RECURSIVE TextLen(_)
TextLen(text) == IF text = <<>> THEN 0 ELSE PieceLen(Head(text)) + TextLen(Tail(text))

\* df.empty
IsEmpty(d) == Len(d.rows) = 0 \/ Len(d.columns) = 0
\* df.shape[0] * df.shape[1]
TotalCells(d) == Len(d.rows) * Len(d.columns)
\* df.isnull().sum().sum()
RECURSIVE MissingFrom(_, _)
MissingFrom(d, j) ==
    IF j > Len(d.columns) THEN 0
    ELSE NullCount(d, d.columns[j]) + MissingFrom(d, j + 1)
MissingCells(d) == MissingFrom(d, 1)
\* df.duplicated().sum(): a frame without columns has no duplicated rows
DuplicateRows(d) == IF Len(d.columns) = 0 THEN 0 ELSE DuplicatedCount(d)

\* ---- analyze_data_quality ------------------------------------------------
\* completeness = 1 - (total_missing / total_cells) if total_cells > 0 else 0
Completeness(d) ==
    IF TotalCells(d) > 0
    THEN Minus(Whole(1), Ratio(MissingCells(d), TotalCells(d)))
    ELSE Whole(0)

\* the object columns whose non-missing values are of more than one type
InconsistentCols(d) ==
    {j \in 1..Len(d.columns) :
        /\ d.dtypes[j] = "object"
        /\ Cardinality({v.k : v \in NonNull(d, d.columns[j])}) > 1}

\* consistency_score = 1.0, less 0.05 for each such column, clamped to [0, 1]
Consistency(d) ==
    PyMax(Whole(0),
          PyMin(Whole(1), Ratio(100 - 5 * Cardinality(InconsistentCols(d)), 100)))

\* uniqueness = 1 - (duplicate_count / len(df)) if len(df) > 0 else 1
Uniqueness(d) ==
    IF Len(d.rows) > 0
    THEN Minus(Whole(1), Ratio(DuplicateRows(d), Len(d.rows)))
    ELSE Whole(1)

Validity == Ratio(9, 10)

OverallScore(completeness, consistency, uniqueness, validity) ==
    Plus(Plus(Times(completeness, Ratio(4, 10)), Times(consistency, Ratio(3, 10))),
         Plus(Times(uniqueness, Ratio(2, 10)), Times(validity, Ratio(1, 10))))

\* the scores of the report of analyze_data_quality (its column metrics,
\* issues and recommendations are left out)
analyze_data_quality(d) ==
    IF IsEmpty(d)
    THEN Returns([overall |-> Whole(0), completeness |-> Whole(0),
                  consistency |-> Whole(0), uniqueness |-> Whole(0),
                  validity |-> Whole(0)])
    ELSE Returns([overall |-> Whole(IntOf(Times(OverallScore(Completeness(d),
                                                             Consistency(d),
                                                             Uniqueness(d),
                                                             Validity),
                                                Whole(100)))),
                  completeness |-> Completeness(d),
                  consistency |-> Consistency(d),
                  uniqueness |-> Uniqueness(d),
                  validity |-> Validity])

\* ---- QualityAssessor -------------------------------------------------------
\* ((total_cells - missing_cells) / total_cells) * 100; missing_cells is a
\* numpy integer when the frame has columns; summed over no columns it is a
\* numpy float or a Python int, as the pandas at hand has it (numpy_sum)
CompletenessOfMissing(d, numpy_sum) ==
    Returns(Times(TrueDivide(Whole(MissingCells(d)), Whole(TotalCells(d))),
                  Whole(100)))
calculate_completeness_score(d, numpy_sum) ==
    IF TotalCells(d) = 0 /\ Len(d.columns) = 0 /\ ~numpy_sum
    THEN Raises("ZeroDivisionError", "division by zero")
    ELSE Returns(Times(TrueDivide(Whole(TotalCells(d) - MissingCells(d)),
                                  Whole(TotalCells(d))),
                       Whole(100)))

\* df[col].dropna().apply(lambda x: len(str(x))).nunique()
UniquePatterns(d, c) ==
    Cardinality({TextLen(ToText(v, DType(d, c))) : v \in NonNull(d, c)})

\* max(0, 100 - (unique_patterns / len(df) * 100)) for a text column, 100
\* for another
ColumnConsistency(d, j) ==
    IF d.dtypes[j] = "object"
    THEN PyMax(Whole(0),
               Minus(Whole(100),
                     Times(Ratio(UniquePatterns(d, d.columns[j]), Len(d.rows)),
                           Whole(100))))
    ELSE Whole(100)

RECURSIVE SumConsistency(_, _)
SumConsistency(d, j) ==
    IF j > Len(d.columns) THEN Whole(0)
    ELSE Plus(ColumnConsistency(d, j), SumConsistency(d, j + 1))

\* unique_patterns and len(df) are Python ints: the quotient raises on a
\* text column of a frame without rows
calculate_consistency_score(d) ==
    IF Len(d.rows) = 0 /\ \E j \in 1..Len(d.columns) : d.dtypes[j] = "object"
    THEN Raises("ZeroDivisionError", "division by zero")
    ELSE IF Len(d.columns) = 0 THEN Returns(Whole(100))
    ELSE Returns(TrueDivide(SumConsistency(d, 1), Whole(Len(d.columns))))

\* ((total_rows - duplicate_rows) / total_rows) * 100
calculate_uniqueness_score(d) ==
    Returns(Times(TrueDivide(Whole(Len(d.rows) - DuplicateRows(d)),
                             Whole(Len(d.rows))),
                  Whole(100)))

NumericCols(d) == {j \in 1..Len(d.columns) : IsNumericDType(d.dtypes[j])}

RECURSIVE TotalOutliers(_, _)
TotalOutliers(d, j) ==
    IF j > Len(d.columns) THEN 0
    ELSE (IF j \in NumericCols(d)
          THEN Cardinality(IqrOutliers(d, d.columns[j], 3)) ELSE 0)
         + TotalOutliers(d, j + 1)

\* ((total_values - total_outliers) / total_values) * 100
calculate_validity_score(d) ==
    IF NumericCols(d) = {} THEN Returns(Whole(100))
    ELSE Returns(Times(TrueDivide(
                           Whole(Len(d.rows) * Cardinality(NumericCols(d))
                                 - TotalOutliers(d, 1)),
                           Whole(Len(d.rows) * Cardinality(NumericCols(d)))),
                       Whole(100)))

Grade(overall_score) ==
    IF AtMost(Whole(90), overall_score) THEN "Excellent"
    ELSE IF AtMost(Whole(80), overall_score) THEN "Very Good"
    ELSE IF AtMost(Whole(70), overall_score) THEN "Good"
    ELSE IF AtMost(Whole(60), overall_score) THEN "Fair"
    ELSE "Needs Improvement"

QualityScores(completeness, consistency, uniqueness, validity) ==
    IF completeness.raised THEN completeness
    ELSE IF consistency.raised THEN consistency
    ELSE IF uniqueness.raised THEN uniqueness
    ELSE IF validity.raised THEN validity
    ELSE Returns([overall |-> OverallScore(completeness.value, consistency.value,
                                           uniqueness.value, validity.value),
                  completeness |-> completeness.value,
                  consistency |-> consistency.value,
                  uniqueness |-> uniqueness.value,
                  validity |-> validity.value])

\* the scores of the report of calculate_quality_score (its grade and
\* recommendations are read off them)
calculate_quality_score(d, numpy_sum) ==
    QualityScores(calculate_completeness_score(d, numpy_sum),
                  calculate_consistency_score(d),
                  calculate_uniqueness_score(d),
                  calculate_validity_score(d))

\* ---- the datasets scored ---------------------------------------------------
Txt_ab == PyStr(<<"a", "b">>)
\* the cells of a numeric column and of a text column
NumericCells == {PyInt(1), NaN}
ObjectCells == {Txt_a, Txt_ab, PyBool(TRUE), None}
\* the lists of at most n rows whose cell j is drawn from cells[j]
RECURSIVE RowsOver(_, _)
RowsOver(cells, n) ==
    IF n = 0 THEN {<<>>}
    ELSE LET row == {r \in [1..Len(cells) -> UNION Range(cells)] :
                        \A j \in 1..Len(cells) : r[j] \in cells[j]}
             shorter == RowsOver(cells, n - 1)
         IN  shorter \cup {Append(q, r) : q \in {x \in shorter : Len(x) = n - 1},
                                          r \in row}
\* the frames of at most MaxRows rows over the columns cols of dtypes dts
FramesOver(cols, dts, cells) ==
    {DataFrame(cols, dts, rws) : rws \in RowsOver(cells, MaxRows)}

\* one value far from four equal ones
DF_outlier == DataFrame(<<ColA>>, <<"int64">>,
                        <<<<PyInt(1)>>, <<PyInt(1)>>, <<PyInt(1)>>, <<PyInt(1)>>,
                          <<PyInt(9)>>>>)

QualityDatasets ==
    FramesOver(<<>>, <<>>, <<>>)
    \cup FramesOver(<<ColA>>, <<"float64">>, <<NumericCells>>)
    \cup FramesOver(<<ColB>>, <<"object">>, <<ObjectCells>>)
    \cup FramesOver(<<ColA, ColB>>, <<"float64", "object">>,
                    <<NumericCells, ObjectCells>>)
    \cup {DF_outlier, DF_dup}

NotScored == [by |-> "none", outcome |-> Returns(None)]

QualityStart(datasets) ==
    /\ quality_df \in datasets
    /\ quality_was = None
    /\ quality_report = NotScored
\* one dataset, or any of the datasets scored
QualityIdle == QualityStart({DF_dup})
QualityInit == QualityStart(QualityDatasets)

\* a caller asks the backend for the quality analysis of the dataset
AnalyzeDataQuality ==
    /\ quality_report' = [by |-> "analyze_data_quality",
                          outcome |-> analyze_data_quality(quality_df)]
    /\ UNCHANGED <<quality_df, quality_was>>
    /\ UNCHANGED exceptQuality

\* a caller asks the assessor of the app for the quality score of the dataset
CalculateQualityScore(numpy_sum) ==
    /\ quality_report' = [by |-> "calculate_quality_score",
                          outcome |-> calculate_quality_score(quality_df, numpy_sum)]
    /\ UNCHANGED <<quality_df, quality_was>>
    /\ UNCHANGED exceptQuality

\* the missing value of a column: None in a text column, nan in a numeric one
MissingValue(dt) == IF dt = "object" THEN None ELSE NaN

\* one non-missing value of the dataset is replaced by a missing one
RemoveValue(r, j) ==
    /\ quality_was = None
    /\ r \in 1..Len(quality_df.rows) /\ j \in 1..Len(quality_df.columns)
    /\ ~IsNull(quality_df.rows[r][j])
    /\ quality_was' = quality_df
    /\ quality_df' = [quality_df EXCEPT
                         !.rows[r][j] = MissingValue(quality_df.dtypes[j]),
                         !.dtypes[j] = IF @ = "int64" THEN "float64" ELSE @]
    /\ quality_report' = NotScored
    /\ UNCHANGED exceptQuality

QualityNext ==
    \/ AnalyzeDataQuality
    \/ \E numpy_sum \in BOOLEAN : CalculateQualityScore(numpy_sum)
    \/ \E r \in 1..(MaxRows + 2), j \in 1..2 : RemoveValue(r, j)

(***************************************************************************)
(* Transformations applied to a dataset and to their own result:           *)
(* remove_duplicates (python_backend/data_cleaning.py), the                *)
(* remove_duplicates step of a pipeline, label_encode, onehot_encode and   *)
(* auto_clean                                                              *)
(***************************************************************************)
\* subset=None
AllColumns == {None}

\* the positions of the columns that df.duplicated(subset) compares
ComparedCols(d, subset) ==
    {j \in 1..Len(d.columns) : subset = AllColumns \/ d.columns[j] \in subset}

\* two rows agree on those columns (a missing value equals a missing value)
SameOn(d, cs, q, r) == \A j \in cs : d.rows[q][j] = d.rows[r][j]

\* one duplicated row is dropped, whichever the policy
DropOneDuplicate(d, subset, keep) ==
    KeepRows(d, {r \in 1..Len(d.rows) :
                    \/ \A q \in 1..(r - 1) : ~SameOn(d, ComparedCols(d, subset), q, r)
                    \/ \E p \in 1..(r - 1) :
                          \E q \in 1..(p - 1) : SameOn(d, ComparedCols(d, subset), q, p)})

\* df.drop_duplicates(subset=subset, keep=keep): of each group of rows that
\* agree on the subset the first or the last stays
DropDuplicatesKeep(d, subset, keep) ==
    IF IsEmpty(d) THEN d
    ELSE KeepRows(d, {r \in 1..Len(d.rows) :
                         IF keep = "first"
                         THEN \A q \in 1..(r - 1) :
                                  ~SameOn(d, ComparedCols(d, subset), q, r)
                         ELSE \A q \in (r + 1)..Len(d.rows) :
                                  ~SameOn(d, ComparedCols(d, subset), q, r)})

\* the dict remove_duplicates returns, df_result being given
RemoveDuplicatesResult(d, df_result) ==
    [dataframe |-> df_result,
     rowsRemoved |-> Len(d.rows) - Len(df_result.rows),
     rowsBefore |-> Len(d.rows),
     rowsAfter |-> Len(df_result.rows),
     percentage |-> IF Len(d.rows) > 0
                    THEN Times(Ratio(Len(d.rows) - Len(df_result.rows), Len(d.rows)),
                               Whole(100))
                    ELSE Whole(0)]

remove_duplicates(d, subset, keep) ==
    RemoveDuplicatesResult(d, DropDuplicatesKeep(d, subset, keep))

\* a pipeline of n remove_duplicates steps
DuplicatesStep(j) ==
    PipelineStep(j, "Remove Duplicates", "remove_duplicates", NoParams)
DuplicatesPipeline(n) == [j \in 1..n |-> DuplicatesStep(j)]

\* LabelEncoder refuses values that are not uniformly strings or numbers
LabelEncodeCall(d, column) ==
    IF Cardinality({v.k : v \in NonNull(d, column)}) > 1
    THEN Raises("TypeError",
                "Encoders require their input argument must be uniformly strings or numbers")
    ELSE Returns(label_encode(d, column))

\* ---- the datasets transformed ------------------------------------------------
TextCells == {Txt_b, Txt_a, None}
TransformDatasets ==
    FramesOver(<<ColB>>, <<"object">>, <<TextCells>>)
    \cup FramesOver(<<ColA, ColB>>, <<"float64", "object">>,
                    <<NumericCells, TextCells>>)
    \cup {DF_dup, DF_nan, DF_flag}

NoCall == [name |-> "none", column |-> None, subset |-> {}, keep |-> "",
           drop_first |-> FALSE, removed |-> 0]
RemoveDuplicatesCalled(subset, keep, removed) ==
    [NoCall EXCEPT !.name = "remove_duplicates", !.subset = subset, !.keep = keep,
                   !.removed = removed]

TransformStart(datasets) ==
    /\ table \in datasets
    /\ table_from = NoCall
    /\ applied = NoCall
    /\ produced = None
\* one dataset, or any of the datasets transformed
TransformIdle == TransformStart({DF_dup})
TransformInit == TransformStart(TransformDatasets)

\* the column labels of the datasets transformed
TransformColumns == {ColA, ColB, ColX, ColDate}
\* the subsets a caller names: None, or some of the columns
Subsets == {AllColumns} \cup (SUBSET TransformColumns \ {{}})

RemoveDuplicates(subset, keep) ==
    /\ subset = AllColumns \/ subset \subseteq Range(table.columns)
    /\ applied' = RemoveDuplicatesCalled(
                      subset, keep, remove_duplicates(table, subset, keep).rowsRemoved)
    /\ produced' = remove_duplicates(table, subset, keep)
    /\ UNCHANGED <<table, table_from>>
    /\ UNCHANGED exceptTransform

\* a pipeline of one remove_duplicates step and one of two are run on the
\* dataset
ExecuteRemoveDuplicates ==
    /\ applied' = [NoCall EXCEPT !.name = "execute"]
    /\ produced' = [once |-> LoopResult(DuplicatesPipeline(1), table),
                    twice |-> LoopResult(DuplicatesPipeline(2), table)]
    /\ UNCHANGED <<table, table_from>>
    /\ UNCHANGED exceptTransform

LabelEncode(column) ==
    /\ HasColumn(table, column)
    /\ applied' = [NoCall EXCEPT !.name = "label_encode", !.column = column]
    /\ produced' = LabelEncodeCall(table, column)
    /\ UNCHANGED <<table, table_from>>
    /\ UNCHANGED exceptTransform

OnehotEncode(column, drop_first) ==
    /\ HasColumn(table, column)
    /\ applied' = [NoCall EXCEPT !.name = "onehot_encode", !.column = column,
                                 !.drop_first = drop_first]
    /\ produced' = Returns(onehot_encode(table, column, drop_first))
    /\ UNCHANGED <<table, table_from>>
    /\ UNCHANGED exceptTransform

AutoClean ==
    /\ applied' = [NoCall EXCEPT !.name = "auto_clean"]
    /\ produced' = auto_clean(table)
    /\ UNCHANGED <<table, table_from>>
    /\ UNCHANGED exceptTransform

\* the caller goes on with the dataset that remove_duplicates or auto_clean
\* returned for the dataset it started with
TakeResult ==
    /\ table_from = NoCall
    /\ \/ applied.name = "remove_duplicates"
       \/ applied.name = "auto_clean" /\ ~produced.raised
    /\ table' = IF applied.name = "auto_clean" THEN produced.df
                ELSE produced.dataframe
    /\ table_from' = applied
    /\ applied' = NoCall
    /\ produced' = None
    /\ UNCHANGED exceptTransform

TransformNext ==
    \/ \E subset \in Subsets, keep \in {"first", "last"} :
           RemoveDuplicates(subset, keep)
    \/ ExecuteRemoveDuplicates
    \/ \E column \in TransformColumns : LabelEncode(column)
    \/ \E column \in TransformColumns, drop_first \in BOOLEAN :
           OnehotEncode(column, drop_first)
    \/ AutoClean
    \/ TakeResult

(***************************************************************************)
(* The session of the app across loads (app.py): the dataset, the undo     *)
(* history and the cached quality score                                    *)
(***************************************************************************)
MaxLoads == 2
MaxAppHistory == 2

\* the datasets a user loads: two files and a file that holds only a header
AppDatasets == {DF_dup, DF_nan, DF_empty}

\* st.session_state.quality_score = assessor.calculate_quality_score(df): the
\* assignment does not happen when the call raises
ScoreAssigned(scored, d, cached) ==
    IF scored.raised THEN cached
    ELSE [overall_score |-> scored.value.overall, on |-> d]
CalculateAndStore(d, cached) ==
    ScoreAssigned(calculate_quality_score(d, TRUE), d, cached)

AppInit ==
    /\ st_data = None
    /\ st_history = <<>>
    /\ st_quality_score = None
    /\ loads = 0
    /\ history_loads = <<>>
    /\ shown = None

\* Data Upload page (file upload, URL import, sample data): data is assigned,
\* then the quality score; the history is left as it is
LoadDataset(d) ==
    /\ loads < MaxLoads
    /\ st_data' = d
    /\ st_quality_score' = CalculateAndStore(d, st_quality_score)
    /\ loads' = loads + 1
    /\ UNCHANGED <<st_history, history_loads, shown>>
    /\ UNCHANGED exceptApp

\* a handler of the Data Cleaning page that records df.copy() and assigns
\* the result
AppApplied(operation, after) ==
    /\ st_data # None
    /\ Len(st_history) < MaxAppHistory
    /\ st_history' = AddOperationResult(st_history, operation, Ref(st_data, FALSE))
    /\ history_loads' = Append(history_loads, loads)
    /\ st_data' = after
    /\ UNCHANGED <<st_quality_score, loads, shown>>
    /\ UNCHANGED exceptApp

\* Remove Duplicates
AppRemoveDuplicates ==
    /\ st_data # None
    /\ AppApplied("Remove Duplicates", drop_duplicates(st_data))

\* Remove Selected Columns
AppRemoveColumns(manual_remove) ==
    /\ st_data # None
    /\ manual_remove # {}
    /\ manual_remove \subseteq Range(st_data.columns)
    /\ AppApplied("Remove Selected Columns", DropColumns(st_data, manual_remove))

\* Undo Last: shown when the history is not empty
AppUndo ==
    /\ st_data # None
    /\ Len(st_history) > 0
    /\ st_history' = UndoResult(st_history).history
    /\ st_data' = UndoResult(st_history).returned.val
    /\ history_loads' = Front(history_loads)
    /\ UNCHANGED <<st_quality_score, loads, shown>>
    /\ UNCHANGED exceptApp

\* the sidebar of a script run: the cached score next to the row and column
\* counts of the current dataset
Sidebar ==
    /\ st_data # None
    /\ st_quality_score # None
    /\ shown' = [by |-> "sidebar", score |-> st_quality_score, data |-> st_data]
    /\ UNCHANGED <<st_data, st_history, st_quality_score, loads, history_loads>>
    /\ UNCHANGED exceptApp

\* Data Profiling page: the score is calculated only if none is cached
ProfilingPage ==
    /\ st_data # None
    /\ st_quality_score' = IF st_quality_score = None
                           THEN CalculateAndStore(st_data, st_quality_score)
                           ELSE st_quality_score
    /\ shown' = IF st_quality_score' = None THEN shown
                ELSE [by |-> "profiling", score |-> st_quality_score',
                      data |-> st_data]
    /\ UNCHANGED <<st_data, st_history, loads, history_loads>>
    /\ UNCHANGED exceptApp

AppNext ==
    \/ \E d \in AppDatasets : LoadDataset(d)
    \/ AppRemoveDuplicates
    \/ \E manual_remove \in SUBSET {ColA, ColB, ColDate} : AppRemoveColumns(manual_remove)
    \/ AppUndo
    \/ Sidebar
    \/ ProfilingPage

(***************************************************************************)
(* Specifications                                                          *)
(***************************************************************************)
\* a fresh tracker with no dataset loaded, a fresh pipeline
Init ==
    /\ TrackerInit /\ PipelineIdle /\ RunsInit /\ ManagerInit
    /\ BatchInit /\ LibraryInit /\ SessionInit
    /\ QualityIdle /\ TransformIdle /\ AppInit

\* the same with any of the datasets scored
InitQuality ==
    /\ TrackerInit /\ PipelineIdle /\ RunsInit /\ ManagerInit
    /\ BatchInit /\ LibraryInit /\ SessionInit
    /\ QualityInit /\ TransformIdle /\ AppInit

\* the same with any of the datasets transformed
InitTransform ==
    /\ TrackerInit /\ PipelineIdle /\ RunsInit /\ ManagerInit
    /\ BatchInit /\ LibraryInit /\ SessionInit
    /\ QualityIdle /\ TransformInit /\ AppInit

SpecTracker == Init /\ [][TrackerNext]_vars

SpecPipeline == Init /\ [][PipelineNext]_vars

SpecRuns == Init /\ [][RunsNext]_vars

SpecManager == Init /\ [][ManagerNext]_vars

SpecBatch == Init /\ [][BatchNext]_vars

SpecLibrary == Init /\ [][LibraryNext]_vars

SpecSession == Init /\ [][SessionNext]_vars

SpecQuality == InitQuality /\ [][QualityNext]_vars

SpecTransform == InitTransform /\ [][TransformNext]_vars

SpecApp == Init /\ [][AppNext]_vars

Next == TrackerNext \/ PipelineNext \/ RunsNext \/ ManagerNext \/ BatchNext
        \/ LibraryNext \/ SessionNext \/ QualityNext
        \/ TransformNext \/ AppNext

Spec == Init /\ [][Next]_vars

(***************************************************************************)
(* Properties of the undo history, under SpecTracker                       *)
(***************************************************************************)
Min(a, b) == IF a < b THEN a ELSE b

\* the value of the j-th stored snapshot
Snapshot(j) == history[j].data.val

\* the stored entries are the most recent pending recordings, in order
StoredAreLatestPending ==
    /\ Len(history) <= Len(pending)
    /\ \A j \in 1..Len(history) :
          Snapshot(j) = pending[Len(pending) - Len(history) + j]

\* C6: undo returns the dataset that was passed to the most recent add_operation
\* not yet undone, with the value it had when it was recorded: no later change
\* of the live dataset, in-place column assignment included, reaches a stored
\* snapshot, so the caller gets the state from before the operation.
C6_UndoReturnsRecordedSnapshot ==
    [][/\ StoredAreLatestPending'
       /\ (call' = "undo" /\ history # <<>>) =>
              /\ returned' # None
              /\ returned'.val = Last(pending)
              /\ data' = Last(pending)]_vars

\* an undo gave back the dataset as recorded although the live dataset had been
\* changed in place after the recording
C6_Witness ==
    /\ call = "undo"
    /\ returned # None
    /\ before # None
    /\ before # returned.val
    /\ data = returned.val

\* C7: the history never holds more than max_history (50) entries; an
\* add_operation grows it by one until it is full and on a full history removes
\* exactly one entry, so the size stays at 50.
C7_SizeBounded ==
    [][/\ Len(history') <= max_history
       /\ call' = "add_operation" =>
              Len(history') = Min(Len(history) + 1, max_history)]_vars

\* an add_operation ran on a full history
C7_Witness ==
    /\ call = "add_operation"
    /\ Len(history) = max_history
    /\ Len(pending) > max_history

\* C8: eviction is FIFO: an add_operation on a full history drops the oldest
\* entry and keeps the others in recording order, so after more than 50
\* recordings without an undo the history holds exactly the 50 most recent
\* ones, oldest first, and undo returns the most recent of them.
C8_EvictionIsFifo ==
    [][/\ (call' = "add_operation" /\ Len(history) = max_history) =>
              /\ \A j \in 1..(max_history - 1) : history'[j] = history[j + 1]
              /\ history'[max_history].data.val = data
       /\ ~undone' =>
              /\ Len(history') = Min(Len(pending'), max_history)
              /\ \A j \in 1..Len(history') :
                    history'[j].data.val =
                        LastN(pending', max_history)[j]
       /\ (call' = "undo" /\ history # <<>>) =>
              returned'.val = history[Len(history)].data.val]_vars

\* more than 50 recordings without an undo, the evicted one differing from the
\* newest
C8_Witness ==
    /\ ~undone
    /\ call = "add_operation"
    /\ Len(pending) > max_history
    /\ Len(history) = max_history
    /\ pending[1] # Snapshot(max_history)
    /\ Snapshot(1) # Snapshot(max_history)

\* C9: undo removes exactly the most recent entry, returns its snapshot and
\* leaves the older entries as they were; nothing but add_operation ever puts
\* an entry into the history, so a popped entry is gone for good.
C9_UndoSingleStepLinear ==
    [][/\ (call' = "undo" /\ history # <<>>) =>
              /\ history' = Front(history)
              /\ returned' = Last(history).data
              /\ pending' = Front(pending)
       /\ Len(history') > Len(history) =>
              /\ call' = "add_operation"
              /\ Front(history') = history
              /\ Last(history').data.val = data]_vars

\* an undo returned the newest snapshot and left an older, different one on top
C9_Witness ==
    /\ call = "undo"
    /\ returned # None
    /\ history # <<>>
    /\ Last(history).data.val # returned.val

\* C10: undo on an empty history returns None, raises nothing and leaves the
\* history empty and the live dataset as it was.
C10_UndoOnEmpty ==
    [][(call' = "undo" /\ history = <<>>) =>
          /\ returned' = None
          /\ ~raised'
          /\ history' = <<>>
          /\ data' = data]_vars

\* an undo on a history that undos had emptied after entries had been evicted
C10_Witness ==
    /\ call = "undo"
    /\ returned = None
    /\ ~raised
    /\ history = <<>>
    /\ pending # <<>>

(***************************************************************************)
(* Properties of Pipeline.execute, under SpecPipeline                      *)
(***************************************************************************)
\* the loop has visited at least one step; steps[idx] is the one visited last
Visited == pc \in {"loop", "idle"} /\ idx > 0
LastStep == steps[idx]

\* the step visited last left an error entry and an error log entry
LoggedAsFailed ==
    /\ outcome = "error"
    /\ execution_log # <<>>
    /\ Last(execution_log).status = "error"
    /\ Last(execution_log).step = LastStep.name
    /\ errors # <<>>
    /\ Last(errors).step = LastStep.name
    /\ Last(errors).error # ""

\* C1: a step that raises leaves an entry in the error list with the
\* exception message and a log entry with status 'error', the run goes on, and
\* the dataset handed to the next step is the one from before the failing step.
C1_FailureIsolation ==
    /\ pc # "raised"
    /\ (Visited /\ outcome = "error") =>
          /\ LoggedAsFailed
          /\ Last(errors).error = Last(execution_log).error
          /\ result_df = prev_df

\* C2: the steps are applied in list order, each to the dataset the previous
\* one produced, starting from a copy of the input; the dataset returned is
\* the output of the last step and the log entries are in step order.
C2_StepsInListOrder ==
    [][/\ (pc = "idle" /\ pc' = "loop") => result_df' = df'
       /\ (pc = "loop" /\ pc' = "loop") =>
              /\ idx' = idx + 1
              /\ \E a \in AnomalyChoices(steps[idx + 1], result_df) :
                    result_df' = RunStep(steps[idx + 1], result_df, a).df
              /\ \/ execution_log' = execution_log
                 \/ /\ Front(execution_log') = execution_log
                    /\ Last(execution_log').step = steps[idx + 1].name
                    /\ Last(execution_log').operation = steps[idx + 1].operation
       /\ (pc = "loop" /\ pc' = "idle") =>
              /\ result'.df = result_df
              /\ result'.report.execution_log = execution_log
              /\ \A j, h \in 1..Len(execution_log) :
                    j < h => execution_log[j].step < execution_log[h].step]_vars

\* a run of two steps that both changed the dataset has returned
C2_Witness ==
    /\ pc = "idle"
    /\ result # None
    /\ idx = 2
    /\ prev_df # df
    /\ result.df # prev_df
    /\ Len(result.report.execution_log) = 2

\* C3: whatever the steps and the dataset, execute visits every step once and
\* returns a (dataset, report) pair: no exception of a step leaves execute,
\* while steps remain the loop has a next iteration to take, each iteration
\* moves on by exactly one step of an unchanged list, and the return happens
\* after the last step with a report that counts every step.
C3_AlwaysReturns ==
    /\ [](/\ pc # "raised"
          /\ outcome # "propagated"
          /\ pc = "loop" =>
                /\ idx <= Len(steps)
                /\ idx < Len(steps) =>
                      AnomalyChoices(NextStep(steps, idx), result_df) # {})
    /\ [][/\ (pc = "loop" /\ pc' = "loop") => (idx' = idx + 1 /\ steps' = steps)
          /\ (pc = "loop" /\ pc' = "idle") =>
                 /\ idx = Len(steps)
                 /\ result' # None
                 /\ result'.df = result_df
                 /\ result'.report.total_steps = idx]_vars

\* a run in which two steps raised has returned
C3_Witness ==
    /\ pc = "idle"
    /\ result # None
    /\ result.report.total_steps = 2
    /\ result.report.failed_steps = 2

\* C4: a step whose operation execute does not know leaves the dataset as it
\* was and is logged as a failed step: an error log entry, an entry in the
\* error list, counted in failed_steps.
C4_UnknownOperationLoggedAsFailed ==
    /\ (Visited /\ LastStep.operation \notin KnownOperations) =>
          /\ result_df = prev_df
          /\ LoggedAsFailed
    /\ (pc = "idle" /\ result # None) =>
          result.report.failed_steps >=
              Cardinality({j \in 1..result.report.total_steps :
                              steps[j].operation \notin KnownOperations})

\* the step names a column that the dataset d does not have: drop_columns with
\* a list of labels none of which is a column, or one of the operations that
\* take a 'column' parameter
NamesMissingColumn(step, d) ==
    \/ /\ step.operation = "drop_columns"
       /\ step.parameters.columns.k = "list"
       /\ step.parameters.columns.items # <<>>
       /\ \A c \in Range(step.parameters.columns.items) : ~HasColumn(d, c)
    \/ /\ step.operation \in {"impute", "encode", "detect_outliers",
                              "remove_outliers", "transform_column"}
       /\ Truthy(step.parameters.column)
       /\ ~HasColumn(d, step.parameters.column)

C11_ExecutionHistoryBounded ==
    /\ Len(pipeline.execution_history) <= KeptExecutions
    /\ pipeline.execution_history = LastN(reports, KeptExecutions)

\* C12: execute leaves identifier, name, description, timestamps and steps of
\* the pipeline as they were; its only effect on the pipeline is one report
\* appended to the execution history, the one it returns.
C12_ExecuteLeavesDefinition ==
    [][op' = "execute" =>
          /\ pipeline'.pipeline_id = pipeline.pipeline_id
          /\ pipeline'.name = pipeline.name
          /\ pipeline'.description = pipeline.description
          /\ pipeline'.created = pipeline.created
          /\ pipeline'.last_modified = pipeline.last_modified
          /\ pipeline'.steps = pipeline.steps
          /\ Len(pipeline'.execution_history) = Len(pipeline.execution_history) + 1
          /\ Front(pipeline'.execution_history) = pipeline.execution_history
          /\ Last(pipeline'.execution_history) = Last(reports')]_vars

\* a pipeline of two steps, one of them failing, has run again
C12_Witness ==
    /\ op = "execute"
    /\ Len(pipeline.steps) = 2
    /\ Len(pipeline.execution_history) >= 2
    /\ Last(pipeline.execution_history).failed_steps > 0
    /\ Last(pipeline.execution_history).successful_steps > 0
    /\ pipeline_was.steps = pipeline.steps

\* C13: from_dict(to_dict(p)) has the identifier, name and description of p,
\* the steps of p in the same order with equal ids, labels, operations and
\* parameters, and the retained (last 10) reports of p in the same order.
C13_SerializationRoundTrip ==
    op = "from_dict" =>
        /\ loaded.pipeline_id = pipeline.pipeline_id
        /\ loaded.name = pipeline.name
        /\ loaded.description = pipeline.description
        /\ Len(loaded.steps) = Len(pipeline.steps)
        /\ \A j \in 1..Len(pipeline.steps) :
              /\ loaded.steps[j].step_id = pipeline.steps[j].step_id
              /\ loaded.steps[j].name = pipeline.steps[j].name
              /\ loaded.steps[j].operation = pipeline.steps[j].operation
              /\ loaded.steps[j].parameters = pipeline.steps[j].parameters
        /\ Len(loaded.execution_history) =
              Min(Len(pipeline.execution_history), KeptExecutions)
        /\ \A j \in 1..Len(loaded.execution_history) :
              loaded.execution_history[j] =
                  pipeline.execution_history[
                      Len(pipeline.execution_history) - Len(loaded.execution_history) + j]

\* a pipeline with two different steps and more than 10 runs was reloaded
C13_Witness ==
    /\ op = "from_dict"
    /\ Len(pipeline.steps) = 2
    /\ pipeline.steps[1].operation # pipeline.steps[2].operation
    /\ Len(pipeline.execution_history) > KeptExecutions
    /\ loaded # None

(***************************************************************************)
(* Properties of the WorkflowManager, under SpecManager                    *)
(***************************************************************************)
\* operation and parameters of the steps of a pipeline, in order, as read
StepContents(p, h) ==
    [j \in 1..Len(p.steps) |->
        [operation |-> p.steps[j].operation,
         parameters |-> Deref(p.steps[j].parameters, h)]]

\* C14: duplicate_pipeline registers a pipeline under an identifier that no
\* registered pipeline had, with the steps of the original in order, operation
\* and parameters; and the copy is deep: a later add, remove or reorder of
\* steps or a change of a parameter value, nested ones included, on one
\* pipeline leaves the steps of every other pipeline as they read before.
C14_DuplicateIsDeep ==
    [][/\ mop' = "duplicate_pipeline" =>
             /\ touched' \notin DOMAIN pipelines
             /\ touched' \in DOMAIN pipelines'
             /\ \E q \in DOMAIN pipelines :
                   StepContents(pipelines'[touched'], heap') =
                       StepContents(pipelines[q], heap)
       /\ mop' \in {"add_step", "remove_step", "reorder_steps", "set_parameter",
                    "append_nested"} =>
             \A q \in DOMAIN pipelines \ {touched'} :
                 StepsView(pipelines'[q], heap') = StepsView(pipelines[q], heap)]_vars

(***************************************************************************)
(* Properties of the BatchProcessor, under SpecBatch                       *)
(***************************************************************************)
\* C15: when a step of apply_template raises, the operations log ends with
\* the error entry of that step, the loop goes on to the next step, and
\* cleaned_df is the dataset it was before the step, whatever the operation.
C15_BatchFailureIsolation ==
    (bpc = "template" /\ tidx > 0 /\ step_failed) =>
        /\ operations_log # <<>>
        /\ Last(operations_log).fmt = "Error in"
        /\ Last(operations_log).v = PyStr(<<template.steps[tidx].operation>>)
        /\ cleaned_df = step_before

\* C16: process_files returns one result per file, in the order of the files:
\* a file that cannot be loaded (unsupported format, no file object, the reader
\* raises) has status 'error' and a message, whatever came before it; every
\* other file has status 'success', its row and column counts before and after,
\* and its operations log.  While the loop runs there is one result per file
\* visited.
C16_OneResultPerFile ==
    /\ bpc = "files" => Len(results) = fidx /\ fidx <= Len(files)
    /\ bpc = "returned" =>
          /\ Len(batch_results) = Len(files)
          /\ \A j \in 1..Len(files) :
                LET res == batch_results[j]
                    loadable == LoadFile(files[j]).status = "loaded"
                IN  /\ res.filename = files[j].name
                    /\ res.status = IF loadable THEN "success" ELSE "error"
                    /\ res.status = "error" => res.errors # <<>>
                    /\ res.status = "success" =>
                          /\ res.rows_before = PyInt(Len(files[j].content.value.rows))
                          /\ res.columns_before =
                                 PyInt(Len(files[j].content.value.columns))
                          /\ res.rows_after = PyInt(Len(res.processed_data.rows))
                          /\ res.columns_after = PyInt(Len(res.processed_data.columns))
                          /\ template = None => res.operations = <<>>
                          /\ res.errors = <<>>

\* a returned batch of two files: the first could not be loaded, the second
\* was cleaned by a template that logged an operation
C16_Witness ==
    /\ bpc = "returned"
    /\ Len(files) = 2
    /\ batch_results[1].status = "error"
    /\ batch_results[2].status = "success"
    /\ batch_results[2].operations # <<>>
    /\ batch_results[2].rows_after # batch_results[2].rows_before

\* the operation names that Pipeline.execute and apply_template both test for
SharedOperations ==
    {"remove_duplicates", "drop_columns", "impute", "remove_outliers", "auto_clean"}

\* C17: a template step whose operation the pipeline accepts too ends as the
\* same step does in Pipeline.execute on the same dataset: both raise or
\* neither does, and both hand on the same dataset.
C17_BatchAgreesWithPipeline ==
    (bpc = "template" /\ tidx > 0
        /\ template.steps[tidx].operation \in SharedOperations) =>
        LET step == template.steps[tidx]
            r == RunStep(PipelineStep("step-1", "Step", step.operation,
                                      step.parameters), step_before, {})
        IN  /\ (r.status = "error") = step_failed
            /\ r.df = cleaned_df

(***************************************************************************)
(* Properties of the operation library, under SpecLibrary                  *)
(***************************************************************************)
\* the functions that take a dataset and return one
DatasetFunctions ==
    {"impute_column", "label_encode", "onehot_encode", "ordinal_encode",
     "auto_clean", "clean_text_columns", "execute", "apply_template"}

\* C18: after a library function or an engine entry point returned or raised,
\* the dataset object the caller passed holds the value it held before the
\* call.
C18_InputNotMutated ==
    lib_call.name \in DatasetFunctions => frames[arg] = arg_was

\* clean_text_columns raised after it had cleaned a column of its copy
C18_Witness ==
    /\ lib_call.name = "clean_text_columns"
    /\ lib_result.raised
    /\ Len(frames) = 2
    /\ frames[2] # frames[1]

\* C19: detect_outliers and impute_column called with a method name they do
\* not know raise an error that says so, and return nothing.
C19_UnsupportedMethodFails ==
    /\ (lib_call.name = "detect_outliers"
           /\ lib_call.method \notin {MethodIqr, MethodZscore, MethodForest}) =>
          lib_result.raised /\ lib_result.exc = "ValueError"
    /\ (lib_call.name = "impute_column"
           /\ lib_call.method \notin {MethodMean, MethodMode, MethodConstant}) =>
          lib_result.raised /\ lib_result.exc = "ValueError"

(***************************************************************************)
(* Properties of the Data Cleaning page, under SpecSession                 *)
(***************************************************************************)
\* C20: when the operation of a handler raised, the dataset of the session
\* and the undo history are what they were before the handler ran.
C20_FailedOperationNotApplied ==
    failed => /\ session_data = session_was.data
              /\ session_history = session_was.history


(***************************************************************************)
(* Properties of the quality scores, under SpecQuality                     *)
(***************************************************************************)
\* C21: whichever of analyze_data_quality and calculate_quality_score scored
\* the dataset, the call returned, its overall score lies in [0, 100], and
\* the overall score of a dataset without rows or without columns is 0
C21_ScoreInRange ==
    quality_report.by # "none" =>
        /\ ~quality_report.outcome.raised
        /\ AtMost(Whole(0), quality_report.outcome.value.overall)
        /\ AtMost(quality_report.outcome.value.overall, Whole(100))
        /\ IsEmpty(quality_df) =>
               /\ AtMost(quality_report.outcome.value.overall, Whole(0))
               /\ AtMost(Whole(0), quality_report.outcome.value.overall)

\* the scoring function that produced the report, applied to the dataset as
\* it was before the value was removed
ScoredBefore ==
    IF quality_report.by = "analyze_data_quality"
    THEN analyze_data_quality(quality_was)
    ELSE calculate_quality_score(quality_was, TRUE)

\* C22: after a non-missing value of a non-empty dataset was replaced by a
\* missing one, the completeness either function reports is not greater than
\* the completeness it reports for the dataset before
C22_CompletenessMonotonic ==
    (quality_was # None /\ quality_report.by # "none") =>
        /\ ~quality_report.outcome.raised
        /\ AtMost(quality_report.outcome.value.completeness,
                  ScoredBefore.value.completeness)

\* a value was removed from a dataset of several cells and the assessor
\* reports a completeness strictly below the one before
C22_Witness ==
    /\ quality_was # None
    /\ quality_report.by = "calculate_quality_score"
    /\ TotalCells(quality_df) > 1
    /\ Below(quality_report.outcome.value.completeness,
             ScoredBefore.value.completeness)


(***************************************************************************)
(* Properties of the transformations, under SpecTransform                  *)
(***************************************************************************)
\* C23: remove_duplicates applied with a subset and a keep policy to the
\* dataset that remove_duplicates returned for the same subset and policy
\* removes no row and returns that dataset; a pipeline of two
\* remove_duplicates steps returns the dataset that a pipeline of one returns,
\* and its second step reports 0 removed
C23_DuplicateRemovalIdempotent ==
    /\ (/\ applied.name = "remove_duplicates"
        /\ table_from.name = "remove_duplicates"
        /\ table_from.subset = applied.subset
        /\ table_from.keep = applied.keep)
       => /\ produced.rowsRemoved = 0
          /\ produced.dataframe = table
    /\ applied.name = "execute"
       => /\ produced.twice.df = produced.once.df
          /\ Len(produced.twice.execution_log) = 2
          /\ produced.twice.execution_log[2].result.n = 0

\* remove_duplicates removed a row, and was applied again to its own result
C23_Witness ==
    /\ applied.name = "remove_duplicates"
    /\ table_from.name = "remove_duplicates"
    /\ table_from.subset = applied.subset
    /\ table_from.keep = applied.keep
    /\ table_from.removed > 0
    /\ Len(table.rows) > 1

\* the rows of a column whose value is seen there for the first time
FirstSeen(d, column) ==
    {r \in Present(d, column) :
        \A q \in 1..(r - 1) : Column(d, column)[q] # Column(d, column)[r]}

\* the number of distinct values seen in the rows above the first row that
\* holds the value of row r
SeenBefore(d, column, r) ==
    Cardinality({q \in FirstSeen(d, column) :
                    \E h \in FirstSeen(d, column) :
                        /\ Column(d, column)[h] = Column(d, column)[r]
                        /\ q < h})

\* C24: label_encode leaves a missing value missing and gives every other
\* value the 0-based rank of its first appearance among the distinct values
C24_LabelsInOrderOfAppearance ==
    (applied.name = "label_encode" /\ ~produced.raised) =>
        \A r \in 1..Len(table.rows) :
            Column(produced.value, applied.column)[r] =
                IF IsNull(Column(table, applied.column)[r])
                THEN Column(table, applied.column)[r]
                ELSE PyInt(SeenBefore(table, applied.column, r))

\* the positions of the columns one-hot encoding appended
IndicatorCols(d, encoded) == (Len(d.columns))..Len(encoded.columns)

\* C25: onehot_encode with drop_first=False replaces a column of k distinct
\* non-missing values by exactly k boolean columns, and a row whose value was
\* not missing holds True in exactly one of them
C25_OneIndicatorPerValue ==
    (applied.name = "onehot_encode" /\ ~applied.drop_first) =>
        /\ Len(produced.value.columns) =
               Len(table.columns) - 1 + Cardinality(NonNull(table, applied.column))
        /\ produced.value.columns \o <<>> =
               DropColumns(table, {applied.column}).columns
               \o SubSeq(produced.value.columns, Len(table.columns),
                         Len(produced.value.columns))
        /\ \A j \in IndicatorCols(table, produced.value) :
               produced.value.dtypes[j] = "bool"
        /\ \A r \in Present(table, applied.column) :
               Cardinality({j \in IndicatorCols(table, produced.value) :
                               produced.value.rows[r][j] = PyBool(TRUE)}) = 1

\* a column of two distinct values and a missing one was encoded
C25_Witness ==
    /\ applied.name = "onehot_encode" /\ ~applied.drop_first
    /\ Cardinality(NonNull(table, applied.column)) = 2
    /\ Present(table, applied.column) # 1..Len(table.rows)
    /\ Len(table.columns) = 2

\* the entries auto_clean would list if it listed a stage exactly when the
\* stage changed the dataset, s being the state before the stage
ListedIfChanged(s, next, entry) == IF next.df # s.df THEN <<entry>> ELSE <<>>
ChangedDateCols(s) ==
    {j \in DateCols(s.df) :
        ConvertDatetimeColumns(s.df, {j}) # s.df}
EffectiveAfterText(s) ==
    [j \in 1..Cardinality(ChangedDateCols(s)) |-> "Converted to datetime"]
EffectiveAfterMissing(s) ==
    ListedIfChanged(s, CleanTextColumns(s),
                    "Cleaned text columns (whitespace normalization)")
    \o EffectiveAfterText(CleanTextColumns(s))
EffectiveAfterDuplicates(s) ==
    ListedIfChanged(s, RemoveMissingColumns(s),
                    "Removed columns with >95% missing values")
    \o EffectiveAfterMissing(RemoveMissingColumns(s))
EffectiveSteps(d) ==
    ListedIfChanged(AutoCleanOk(d, <<>>), RemoveDuplicateRows(AutoCleanOk(d, <<>>)),
                    "Removed duplicate rows")
    \o EffectiveAfterDuplicates(RemoveDuplicateRows(AutoCleanOk(d, <<>>)))

\* C26: the list auto_clean returns names, in recipe order, exactly the
\* stages that changed the dataset
C26_ListNamesEffectiveSteps ==
    (applied.name = "auto_clean" /\ ~produced.raised) =>
        produced.operations = EffectiveSteps(table)


(***************************************************************************)
(* The execution report, under SpecPipeline                                *)
(***************************************************************************)
\* C27: the report execute returns has one log entry per step of the
\* pipeline, in step order; successful_steps + failed_steps = total_steps =
\* the number of steps; the error list has one entry per log entry of status
\* 'error'; input_shape and output_shape are the shapes of the dataset passed
\* in and of the dataset returned
C27_ReportConsistent ==
    [][(pc = "loop" /\ pc' = "idle") =>
          /\ Len(result'.report.execution_log) = Len(steps)
          /\ \A j \in 1..Len(steps) :
                 /\ result'.report.execution_log[j].step = steps[j].name
                 /\ result'.report.execution_log[j].operation = steps[j].operation
          /\ result'.report.total_steps = Len(steps)
          /\ result'.report.successful_steps + result'.report.failed_steps
                 = result'.report.total_steps
          /\ Len(result'.report.errors) =
                 Cardinality({j \in 1..Len(result'.report.execution_log) :
                                 result'.report.execution_log[j].status = "error"})
          /\ result'.report.input_shape = Shape(df)
          /\ result'.report.output_shape = Shape(result'.df)]_vars


(***************************************************************************)
(* Reordering the steps of a pipeline, under SpecManager                   *)
(***************************************************************************)
\* how many steps of the list ss carry the id sid
TimesHeld(ss, sid) == Cardinality({j \in 1..Len(ss) : ss[j].step_id = sid})

\* C28: reorder_steps leaves the pipeline with exactly the steps it held,
\* each once; the step ids of a pipeline are pairwise distinct at all times,
\* and no call other than remove_step makes a step disappear
C28_ReorderOnlyPermutes ==
    /\ [](\A q \in DOMAIN pipelines :
             \A sid \in 1..MaxUuid : TimesHeld(pipelines[q].steps, sid) <= 1)
    /\ [][/\ mop' = "reorder_steps" =>
                \A sid \in 1..MaxUuid :
                    TimesHeld(pipelines'[touched'].steps, sid)
                        = TimesHeld(pipelines[touched'].steps, sid)
          /\ mop' # "remove_step" =>
                \A q \in DOMAIN pipelines :
                    \A sid \in 1..MaxUuid :
                        TimesHeld(pipelines[q].steps, sid) > 0
                            => TimesHeld(pipelines'[q].steps, sid) > 0]_vars


(***************************************************************************)
(* Properties of the session across loads, under SpecApp                   *)
(***************************************************************************)
\* C29: every entry of the undo history was recorded against the dataset
\* loaded last, and Undo Last replaces the dataset only by a snapshot
\* recorded since that dataset was loaded
C29_HistoryBelongsToLoadedDataset ==
    /\ [](\A j \in 1..Len(history_loads) : history_loads[j] = loads)
    /\ [][(Len(st_history') < Len(st_history)) => Last(history_loads) = loads]_vars

\* C30: a quality score that is displayed was calculated on the dataset the
\* session held when it was displayed
C30_ShownScoreIsCurrent ==
    shown # None => shown.score.on = shown.data

====
